---- MODULE Spec2Model ----
(***************************************************************************)
(* Office template installer (python_port): author validation, install    *)
(* passes (base + custom), backup of overwritten files and uninstall.      *)
(*                                                                         *)
(* Two implementations live side by side in the repository and both are   *)
(* modelled:                                                               *)
(*   "main"   - main_installer.py with auth_tools.py / office_paths.py     *)
(*   "common" - common.py (install_template, copy_custom_templates, and    *)
(*              the uninstall functions used by uninstaller.py)            *)
(*                                                                         *)
(* Strings are sequences of one-character strings so that strip() and      *)
(* lower() are computed, not assumed.                                      *)
(***************************************************************************)
EXTENDS Integers, Sequences, FiniteSets, TLC

VARIABLES
    probe,        \* last standalone call of check_template_author (inputs + result)
    impl,         \* which implementation runs ("main" | "common")
    staging,      \* staging folder: file name -> container, or Absent
    allowed_authors,     \* configured allowed-author argument
    validation_enabled,  \* configured validation switch
    winreg,       \* configuration store (registry)
    pc,           \* position of the orchestrator
    idx,          \* index into base_targets during the base pass
    scan,         \* files still to be visited by the custom pass
    template_paths, \* common.py's module-level paths, resolved when it is imported
    detected,     \* office_paths.detect_office_paths result (main), or NoPaths
    dirs,         \* directories that exist
    fs,           \* files outside the staging folder: set of [dir, name, data]
    now,          \* wall clock, in half minutes
    totals,       \* InstallTotals {files, errors, blocked}
    context,      \* main_installer.InstallationContext (flags and selections)
    open_requests,\* InstallationContext.open_requests
    flags,        \* common.InstallFlags
    requests,     \* folder-open requests handed to the folder opener
    launched,     \* applications handed to the launcher
    last,         \* the last install step (history)
    processed,    \* install steps begun in the current run (history)
    placed,       \* file paths written by install steps so far (history)
    overwritten,  \* files the current run has overwritten, with their old data (history)
    finished,     \* totals of the install runs that ran to their end (history)
    runs,         \* install runs started
    uninstalls,   \* uninstall runs started
    faults        \* I/O faults injected so far

\* what a behaviour never changes once the installer has been configured
config == << impl, staging, allowed_authors, validation_enabled, winreg >>

vars == << probe, impl, staging, allowed_authors, validation_enabled, winreg,
           template_paths,
           pc, idx, scan, detected, dirs, fs, now, totals, context,
           open_requests, flags, requests, launched, last, processed, placed,
           overwritten, finished, runs, uninstalls, faults >>

----------------------------------------------------------------------------
(* Bounds                                                                  *)

MaxFaults == 1      \* injected I/O faults per behaviour
MaxRuns == 2        \* install runs per behaviour
MaxUninstalls == 2  \* uninstall runs per behaviour
MaxClock == 2       \* clock ticks (half minutes) per behaviour
MaxStaged == 2      \* template files present in the staging folder
MaxText == 3        \* characters of a path spelling given to normalize_path

----------------------------------------------------------------------------
(* Strings                                                                 *)

UpperChars == << "A","B","C","D","E","F","G","H","I","J","K","L","M",
                 "N","O","P","Q","R","S","T","U","V","W","X","Y","Z" >>
LowerChars == << "a","b","c","d","e","f","g","h","i","j","k","l","m",
                 "n","o","p","q","r","s","t","u","v","w","x","y","z" >>

LowerMap == [c \in {UpperChars[i] : i \in 1..26} |->
                LowerChars[CHOOSE i \in 1..26 : UpperChars[i] = c]]

\* str.lower() on one character
LowerChar(c) == IF c \in DOMAIN LowerMap THEN LowerMap[c] ELSE c

\* str.lower()
lower(s) == [i \in 1..Len(s) |-> LowerChar(s[i])]

IsSpace(c) == c \in {" ", "\t", "\n"}

\* str.strip(): drop leading and trailing whitespace
strip(s) ==
    LET nonsp == {i \in 1..Len(s) : ~IsSpace(s[i])}
    IN  IF nonsp = {} THEN << >>
        ELSE LET lo == CHOOSE i \in nonsp : \A j \in nonsp : i <= j
                 hi == CHOOSE i \in nonsp : \A j \in nonsp : j <= i
             IN  SubSeq(s, lo, hi)

Range(s) == {s[i] : i \in 1..Len(s)}

----------------------------------------------------------------------------
(* Constants of the program                                                *)

DEFAULT_ALLOWED_TEMPLATE_AUTHORS ==
    << << "w","w","w",".","g","r","a","d","a",".","c","c" >>,
       << "w","w","w",".","g","r","a","d","a","z",".","c","o","m" >> >>

DOTX == << ".","d","o","t","x" >>
DOTM == << ".","d","o","t","m" >>
POTX == << ".","p","o","t","x" >>
POTM == << ".","p","o","t","m" >>
XLTX == << ".","x","l","t","x" >>
XLTM == << ".","x","l","t","m" >>
THMX == << ".","t","h","m","x" >>

SUPPORTED_TEMPLATE_EXTENSIONS == {DOTX, DOTM, POTX, POTM, XLTX, XLTM, THMX}

\* A file name: stem + extension.  ts is the <YYYY.MM.DD.HHMM>_ prefix that
\* backup_existing puts in front of a name, NoStamp for every other file.
NoStamp == -1
FileName(stem, ext) == [stem |-> stem, ext |-> ext, ts |-> NoStamp]

BASE_TEMPLATE_NAMES ==
    { FileName("Normal", DOTX), FileName("Normal", DOTM),
      FileName("NormalEmail", DOTX), FileName("NormalEmail", DOTM),
      FileName("Blank", POTX), FileName("Blank", POTM),
      FileName("Book", XLTX), FileName("Book", XLTM),
      FileName("Sheet", XLTX), FileName("Sheet", XLTM) }

\* Path.suffix.lower()
suffix_lower(name) == lower(name.ext)

----------------------------------------------------------------------------
(* Template containers                                                     *)
(*   kind "notzip"  - not a ZIP / corrupt container (zipfile raises)       *)
(*   kind "nocore"  - ZIP without docProps/core.xml (KeyError)             *)
(*   kind "badxml"  - core.xml is not well-formed (ParseError)             *)
(*   kind "xml"     - core.xml parsed; dc / plain are the texts of the     *)
(*                    Dublin-Core creator and of the unqualified creator   *)
(*                    element, << >> when the element or its text is absent*)

Container(kind, dc, plain) == [kind |-> kind, dc |-> dc, plain |-> plain]

NoText == << >>

Extracted(author, error) == [author |-> author, error |-> error]

\* _extract_author with "except KeyError" as its only handler: what
\* zipfile.ZipFile and ET.fromstring raise leaves the function
extract_author_uncaught(data) ==
    IF data.kind \in {"notzip", "badxml"} THEN Extracted(NoText, "raised")
    ELSE IF data.kind = "nocore" THEN Extracted(NoText, "WARN_core")
    ELSE LET creator == IF data.dc # NoText THEN strip(data.dc)
                        ELSE IF data.plain # NoText THEN strip(data.plain)
                        ELSE NoText
         IN  IF creator = NoText THEN Extracted(NoText, "WARN_author")
             ELSE Extracted(creator, "none")

\* auth_tools._extract_author; error "none" stands for None, author << >>
\* for None or "".
extract_author(data) ==
    IF data.kind \in {"notzip", "badxml"} THEN Extracted(NoText, "ERROR")
    ELSE IF data.kind = "nocore" THEN Extracted(NoText, "WARN_core")
    ELSE LET creator == IF data.dc # NoText THEN strip(data.dc)
                        ELSE IF data.plain # NoText THEN strip(data.plain)
                        ELSE NoText
         IN  IF creator = NoText THEN Extracted(NoText, "WARN_author")
             ELSE Extracted(creator, "none")

\* common._extract_author: returns the stripped text of the first candidate
\* whose text is non-empty, even when stripping leaves nothing.
common_extract_author(data) ==
    IF data.kind \in {"notzip", "badxml"} THEN Extracted(NoText, "ERROR")
    ELSE IF data.kind = "nocore" THEN Extracted(NoText, "WARN_core")
    ELSE IF data.dc # NoText THEN Extracted(strip(data.dc), "none")
    ELSE IF data.plain # NoText THEN Extracted(strip(data.plain), "none")
    ELSE Extracted(NoText, "WARN_author")

\* _normalize_allowed_authors: strip every entry, drop the empty ones
RECURSIVE normalize_allowed_authors(_)
normalize_allowed_authors(authors) ==
    IF authors = << >> THEN << >>
    ELSE LET cleaned == strip(Head(authors))
             rest == normalize_allowed_authors(Tail(authors))
         IN  IF cleaned # << >> THEN << cleaned >> \o rest ELSE rest

\* The allowed_authors argument: given = FALSE is None.
AuthorsArg(given, list) == [given |-> given, list |-> list]
NoneArg == AuthorsArg(FALSE, << >>)

\* Python: allowed_authors or DEFAULT_ALLOWED_TEMPLATE_AUTHORS
or_default(arg) ==
    IF arg.given /\ arg.list # << >> THEN arg.list
    ELSE DEFAULT_ALLOWED_TEMPLATE_AUTHORS

AuthorCheckResult(allowed, message, authors, error) ==
    [allowed |-> allowed, message |-> message, authors |-> authors,
     error |-> error, extracted |-> FALSE]

\* Targets of check_template_author
MissingTarget == [kind |-> "missing", name |-> FileName("", << >>),
                  data |-> Container("none", NoText, NoText), children |-> << >>]
FileTarget(name, data) == [kind |-> "file", name |-> name, data |-> data,
                           children |-> << >>]
\* children: the files iter_template_files yields, in scan order
DirTarget(children) == [kind |-> "dir", name |-> FileName("", << >>),
                        data |-> Container("none", NoText, NoText),
                        children |-> children]

\* the directory branch appending only the authors on the default list
RECURSIVE scan_authors_filtering(_)
scan_authors_filtering(children) ==
    IF children = << >> THEN << >>
    ELSE LET r == extract_author(Head(children).data)
             rest == scan_authors_filtering(Tail(children))
         IN  IF /\ r.author # NoText
                /\ \E i \in 1..Len(DEFAULT_ALLOWED_TEMPLATE_AUTHORS) :
                      lower(r.author) = lower(DEFAULT_ALLOWED_TEMPLATE_AUTHORS[i])
             THEN << r.author >> \o rest
             ELSE rest

\* the directory branch with a "break" at the first file without an author
RECURSIVE scan_authors_stopping(_)
scan_authors_stopping(children) ==
    IF children = << >> THEN << >>
    ELSE LET r == extract_author(Head(children).data)
         IN  IF r.author # NoText
             THEN << r.author >> \o scan_authors_stopping(Tail(children))
             ELSE << >>

\* auth_tools.check_template_author, directory branch (lines 85-106)
RECURSIVE scan_authors(_)
scan_authors(children) ==
    IF children = << >> THEN << >>
    ELSE LET r == extract_author(Head(children).data)
             rest == scan_authors(Tail(children))
         IN  IF r.author # NoText THEN << r.author >> \o rest ELSE rest

\* common.check_template_author, directory branch (lines 315-335)
RECURSIVE common_scan_authors(_)
common_scan_authors(children) ==
    IF children = << >> THEN << >>
    ELSE LET f == Head(children)
             rest == common_scan_authors(Tail(children))
         IN  IF suffix_lower(f.name) = THMX THEN rest
             ELSE LET r == common_extract_author(f.data)
                  IN  IF r.author # NoText THEN << r.author >> \o rest
                      ELSE rest

\* any(author.strip().lower() == a.lower() for a in allowed)
any_match(author, allowed) ==
    \E i \in 1..Len(allowed) : lower(strip(author)) = lower(allowed[i])

\* AuthorCheckResult.as_cli_output (auth_tools.py lines 24-25)
as_cli_output(result) == IF result.allowed /\ ~result.error THEN "TRUE" ELSE "FALSE"

\* the file check letting a file through when its author cannot be read
validate_author_fail_open(data, allowed) ==
    LET r == extract_author(data)
    IN  [ (IF r.error # "none"
           THEN AuthorCheckResult(TRUE, r.error, << >>, TRUE)
           ELSE IF r.author = NoText
           THEN AuthorCheckResult(FALSE, "no_author", << >>, FALSE)
           ELSE LET is_allowed == any_match(r.author, allowed)
                IN  AuthorCheckResult(is_allowed,
                                      IF is_allowed THEN "ok" ELSE "blocked",
                                      << r.author >>, FALSE))
          EXCEPT !.extracted = TRUE ]

\* auth_tools.check_template_author, lines 115-142: the file is read and
\* its author compared
validate_author(data, allowed) ==
    LET r == extract_author(data)
    IN  [ (IF r.error # "none"
           THEN AuthorCheckResult(FALSE, r.error, << >>, TRUE)
           ELSE IF r.author = NoText
           THEN AuthorCheckResult(FALSE, "no_author", << >>, FALSE)
           ELSE LET is_allowed == any_match(r.author, allowed)
                IN  AuthorCheckResult(is_allowed,
                                      IF is_allowed THEN "ok" ELSE "blocked",
                                      << r.author >>, FALSE))
          EXCEPT !.extracted = TRUE ]

\* check_template_author without the validation_enabled bypass
check_template_author_without_bypass(target, arg, validation) ==
    LET allowed == normalize_allowed_authors(or_default(arg))
    IN  IF target.kind = "missing"
        THEN AuthorCheckResult(FALSE, "notfound", << >>, TRUE)
        ELSE IF target.kind = "dir"
        THEN AuthorCheckResult(TRUE, "dirscan", scan_authors(target.children), FALSE)
        ELSE validate_author(target.data, allowed)

\* check_template_author testing validation_enabled before target.exists()
check_template_author_bypass_first(target, arg, validation) ==
    LET allowed == normalize_allowed_authors(or_default(arg))
    IN  IF ~validation
        THEN AuthorCheckResult(TRUE, "disabled", << >>, FALSE)
        ELSE IF target.kind = "missing"
        THEN AuthorCheckResult(FALSE, "notfound", << >>, TRUE)
        ELSE IF target.kind = "dir"
        THEN AuthorCheckResult(TRUE, "dirscan", scan_authors(target.children), FALSE)
        ELSE validate_author(target.data, allowed)

\* auth_tools.check_template_author
check_template_author(target, arg, validation) ==
    LET allowed == normalize_allowed_authors(or_default(arg))
    IN  IF target.kind = "missing"
        THEN AuthorCheckResult(FALSE, "notfound", << >>, TRUE)
        ELSE IF target.kind = "dir"
        THEN AuthorCheckResult(TRUE, "dirscan", scan_authors(target.children), FALSE)
        ELSE IF ~validation
        THEN AuthorCheckResult(TRUE, "disabled", << >>, FALSE)
        ELSE validate_author(target.data, allowed)

\* common.check_template_author
common_check_template_author(target, arg, validation) ==
    LET allowed == normalize_allowed_authors(or_default(arg))
    IN  IF target.kind = "missing"
        THEN AuthorCheckResult(FALSE, "notfound", << >>, TRUE)
        ELSE IF target.kind = "dir"
        THEN AuthorCheckResult(TRUE, "dirscan",
                               common_scan_authors(target.children), FALSE)
        ELSE IF ~validation
        THEN AuthorCheckResult(TRUE, "disabled", << >>, FALSE)
        ELSE IF suffix_lower(target.name) = THMX
        THEN AuthorCheckResult(TRUE, "theme", << >>, FALSE)
        ELSE LET r == common_extract_author(target.data)
             IN  [ (IF r.error # "none"
                    THEN AuthorCheckResult(FALSE, r.error, << >>, TRUE)
                    ELSE IF r.author = NoText
                    THEN AuthorCheckResult(FALSE, "no_author", << >>, FALSE)
                    ELSE LET is_allowed ==
                                 \E i \in 1..Len(allowed) :
                                     lower(r.author) = lower(allowed[i])
                         IN  AuthorCheckResult(is_allowed,
                                 IF is_allowed THEN "ok" ELSE "blocked",
                                 << r.author >>, FALSE))
                   EXCEPT !.extracted = TRUE ]

\* the check as the running implementation performs it
CheckAuthor(which, target, arg, validation) ==
    IF which = "main" THEN check_template_author(target, arg, validation)
    ELSE common_check_template_author(target, arg, validation)

----------------------------------------------------------------------------
(* Paths and the configuration store                                       *)
(* A path is the sequence of its components; a trailing separator shows as *)
(* a trailing empty component.                                             *)

NoValue == << >>

\* normalize_path on a path: rstrip("\\/") drops the trailing separators
RECURSIVE normalize_path(_)
normalize_path(p) ==
    IF p # << >> /\ p[Len(p)] = "" THEN normalize_path(SubSeq(p, 1, Len(p) - 1))
    ELSE p

\* pathlib "/" (pathlib itself never keeps a trailing separator)
Join(p, component) == Append(normalize_path(p), component)

OFFICE_VERSIONS == << "16.0", "15.0", "14.0", "12.0" >>

\* environment defaults: %APPDATA%, %USERPROFILE%\Documents
APPDATA_PATH == << "AppData" >>
DOCUMENTS_PATH == << "Documents" >>

ShellFolders == << "Explorer", "User Shell Folders" >>

RegValue(key, name, value) == [key |-> key, name |-> name, value |-> value]
Registry(available, values) == [available |-> available, values |-> values]

\* winreg.OpenKey + QueryValueEx; a missing key or value and a refused read
\* are all OSError, which both modules turn into None
QueryValueEx(reg, key, name) ==
    IF \E v \in reg.values : v.key = key /\ v.name = name
    THEN (CHOOSE v \in reg.values : v.key = key /\ v.name = name).value
    ELSE NoValue

\* common._read_registry_value
read_registry_value(reg, key, name) ==
    IF ~reg.available THEN NoValue ELSE QueryValueEx(reg, key, name)

\* first version of OFFICE_VERSIONS[i..] whose key holds a value
RECURSIVE first_version_value(_, _, _, _, _)
first_version_value(reg, i, app, leaf, name) ==
    IF i > Len(OFFICE_VERSIONS) THEN NoValue
    ELSE LET value == read_registry_value(reg, << OFFICE_VERSIONS[i], app, leaf >>, name)
         IN  IF value # NoValue THEN normalize_path(value)
             ELSE first_version_value(reg, i + 1, app, leaf, name)

\* common._resolve_custom_template_path / _resolve_custom_alt_path /
\* _resolve_excel_template_path: PersonalTemplates of the application over
\* all versions, then Common\General UserTemplates over all versions, then
\* the fallback
resolve_custom_path(reg, app, fallback) ==
    LET personal == first_version_value(reg, 1, app, "Options", "PersonalTemplates")
        user == first_version_value(reg, 1, "Common", "General", "UserTemplates")
    IN  IF reg.available /\ personal # NoValue THEN personal
        ELSE IF reg.available /\ user # NoValue THEN user
        ELSE normalize_path(fallback)

\* common._resolve_appdata_path / _resolve_documents_path
resolve_appdata_path(reg) ==
    LET appdata == read_registry_value(reg, ShellFolders, "AppData")
    IN  normalize_path(IF appdata # NoValue THEN appdata ELSE APPDATA_PATH)

resolve_documents_path(reg) ==
    LET documents == read_registry_value(reg, ShellFolders, "Personal")
    IN  normalize_path(IF documents # NoValue THEN documents ELSE DOCUMENTS_PATH)

\* common._resolve_base_paths
resolve_base_paths(reg) ==
    LET documents_path == resolve_documents_path(reg)
        default_custom_dir == Join(documents_path, "Custom Office Templates")
        default_custom_alt_dir == Join(documents_path, "Plantillas personalizadas de Office")
        custom_word == resolve_custom_path(reg, "Word", default_custom_dir)
        appdata_path == resolve_appdata_path(reg)
    IN  [ APPDATA |-> appdata_path,
          DOCUMENTS |-> documents_path,
          CUSTOM_WORD |-> custom_word,
          CUSTOM_PPT |-> resolve_custom_path(reg, "PowerPoint", custom_word),
          CUSTOM_EXCEL |-> resolve_custom_path(reg, "Excel", custom_word),
          CUSTOM_ADDITIONAL |-> default_custom_alt_dir,
          THEME |-> Join(Join(Join(appdata_path, "Microsoft"), "Templates"), "Document Themes"),
          ROAMING |-> Join(Join(appdata_path, "Microsoft"), "Templates"),
          EXCEL_STARTUP |-> Join(Join(Join(appdata_path, "Microsoft"), "Excel"), "XLSTART") ]

\* common.resolve_template_paths (no environment override set)
resolve_template_paths(reg) ==
    LET base == resolve_base_paths(reg)
    IN  [ THEME |-> normalize_path(base.THEME),
          CUSTOM_WORD |-> normalize_path(base.CUSTOM_WORD),
          CUSTOM_PPT |-> normalize_path(base.CUSTOM_PPT),
          CUSTOM_EXCEL |-> normalize_path(base.CUSTOM_EXCEL),
          CUSTOM_ADDITIONAL |-> normalize_path(base.CUSTOM_ADDITIONAL),
          ROAMING |-> normalize_path(base.ROAMING),
          EXCEL |-> normalize_path(base.EXCEL_STARTUP) ]

\* common.default_destinations, over the paths resolve_template_paths returns
default_destinations(paths) ==
        [ WORD |-> paths.ROAMING,
          POWERPOINT |-> paths.ROAMING,
          EXCEL |-> paths.EXCEL,
          CUSTOM |-> paths.CUSTOM_WORD,
          CUSTOM_ALT |-> paths.CUSTOM_ADDITIONAL,
          WORD_CUSTOM |-> paths.CUSTOM_WORD,
          POWERPOINT_CUSTOM |-> paths.CUSTOM_PPT,
          EXCEL_CUSTOM |-> paths.CUSTOM_EXCEL,
          ROAMING |-> paths.ROAMING,
          THEMES |-> paths.THEME ]

\* constants.py (module-level paths of the main installer)
DEFAULT_CUSTOM_OFFICE_TEMPLATE_PATH == Join(DOCUMENTS_PATH, "Custom Office Templates")
DEFAULT_CUSTOM_OFFICE_ADDITIONAL_TEMPLATE_PATH ==
    Join(DOCUMENTS_PATH, "Plantillas personalizadas de Office")
DEFAULT_ROAMING_TEMPLATE_FOLDER == Join(Join(APPDATA_PATH, "Microsoft"), "Templates")
DEFAULT_EXCEL_STARTUP_FOLDER ==
    Join(Join(Join(APPDATA_PATH, "Microsoft"), "Excel"), "XLSTART")

\* office_paths._lookup_template_path: per version, PersonalTemplates under
\* <app>\Options, then UserTemplates under <app>\Common\General
RECURSIVE lookup_template_path(_, _, _)
lookup_template_path(reg, i, app) ==
    IF ~reg.available \/ i > Len(OFFICE_VERSIONS) THEN NoValue
    ELSE LET personal == normalize_path(
                 QueryValueEx(reg, << OFFICE_VERSIONS[i], app, "Options" >>, "PersonalTemplates"))
             user == normalize_path(
                 QueryValueEx(reg, << OFFICE_VERSIONS[i], app, "Common\\General" >>, "UserTemplates"))
         IN  IF personal # NoValue THEN normalize_path(personal)
             ELSE IF user # NoValue THEN normalize_path(user)
             ELSE lookup_template_path(reg, i + 1, app)

\* office_paths._read_user_shell_folder
read_user_shell_folder(reg, name) ==
    IF ~reg.available THEN NoValue
    ELSE normalize_path(QueryValueEx(reg, ShellFolders, name))

OfficePaths(word, powerpoint, excel, document_theme, default_custom_dir) ==
    [ word |-> word, powerpoint |-> powerpoint, excel |-> excel,
      document_theme |-> document_theme, default_custom_dir |-> default_custom_dir ]

\* office_paths.detect_office_paths (the paths it returns)
detect_office_paths(reg) ==
    LET shell_appdata == read_user_shell_folder(reg, "AppData")
        shell_documents == read_user_shell_folder(reg, "Personal")
        appdata_expanded == IF shell_appdata # NoValue THEN shell_appdata ELSE APPDATA_PATH
        documents_path == IF shell_documents # NoValue THEN shell_documents ELSE DOCUMENTS_PATH
        document_theme_folder ==
            Join(Join(Join(appdata_expanded, "Microsoft"), "Templates"), "Document Themes")
        default_custom_dir == Join(documents_path, "Custom Templates")
        word == lookup_template_path(reg, 1, "Word")
        ppt == lookup_template_path(reg, 1, "PowerPoint")
        excel == lookup_template_path(reg, 1, "Excel")
    IN  OfficePaths(
            normalize_path(IF word # NoValue THEN word ELSE default_custom_dir),
            normalize_path(IF ppt # NoValue THEN ppt ELSE default_custom_dir),
            normalize_path(IF excel # NoValue THEN excel ELSE default_custom_dir),
            normalize_path(document_theme_folder),
            normalize_path(default_custom_dir))

NoPaths == OfficePaths(NoValue, NoValue, NoValue, NoValue, NoValue)

\* common.py not imported yet
NoTemplatePaths ==
    [ THEME |-> NoValue, CUSTOM_WORD |-> NoValue, CUSTOM_PPT |-> NoValue,
      CUSTOM_EXCEL |-> NoValue, CUSTOM_ADDITIONAL |-> NoValue, ROAMING |-> NoValue,
      EXCEL |-> NoValue ]

----------------------------------------------------------------------------
(* Filesystem                                                              *)

Absent == Container("absent", NoText, NoText)

File(dir, name, data) == [dir |-> dir, name |-> name, data |-> data]

\* a file path (directory + name); NoFile is None
FilePath(dir, name) == [dir |-> dir, name |-> name]
NoFile == FilePath(<< >>, FileName("", << >>))

exists(files, dir, name) == \E f \in files : f.dir = dir /\ f.name = name

read(files, dir, name) == (CHOOSE f \in files : f.dir = dir /\ f.name = name).data

\* content of a staging-folder file, Absent when there is none
staged(st, name) == IF name \in DOMAIN st THEN st[name] ELSE Absent

\* shutil.copy2 into dir/name: creates or overwrites
write(files, dir, name, data) ==
    {f \in files : ~(f.dir = dir /\ f.name = name)} \cup {File(dir, name, data)}

\* content of dir/name before a step, Absent when there is no such file
previous(files, dir, name) ==
    IF exists(files, dir, name) THEN read(files, dir, name) ELSE Absent

\* Path.unlink
unlink(files, dir, name) == {f \in files : ~(f.dir = dir /\ f.name = name)}

\* ensure_directory: mkdir(parents=True, exist_ok=True)
ensure_directory(ds, dir) == ds \cup {SubSeq(dir, 1, k) : k \in 1..Len(dir)}

\* datetime.now().strftime("%Y.%m.%d.%H%M"): the clock cut to the minute
strftime(clock) == clock \div 2

BackupName(stamp, name) == [name EXCEPT !.ts = stamp]

Faults == {"none", "mkdir_dest", "backup_mkdir", "backup_copy", "copy"}

\* main_installer.backup_existing_template: result of the backup step
backup_existing_template(ds, files, dir, name, fault) ==
    IF ~exists(files, dir, name)
    THEN [dirs |-> ds, fs |-> files, raised |-> FALSE, made |-> FALSE]
    ELSE IF fault = "backup_mkdir"
    THEN [dirs |-> ds, fs |-> files, raised |-> FALSE, made |-> FALSE]
    ELSE LET backup_dir == Append(dir, "Backup")
             ds2 == ensure_directory(ds, backup_dir)
         IN  IF fault = "backup_copy"
             THEN [dirs |-> ds2, fs |-> files, raised |-> FALSE, made |-> FALSE]
             ELSE [dirs |-> ds2,
                   fs |-> write(files, backup_dir, BackupName(strftime(now), name),
                                read(files, dir, name)),
                   raised |-> FALSE, made |-> TRUE]

\* common.backup_existing: ensure_directory is outside the try block
backup_existing(ds, files, dir, name, fault) ==
    IF ~exists(files, dir, name)
    THEN [dirs |-> ds, fs |-> files, raised |-> FALSE, made |-> FALSE]
    ELSE IF fault = "backup_mkdir"
    THEN [dirs |-> ds, fs |-> files, raised |-> TRUE, made |-> FALSE]
    ELSE LET backup_dir == Append(dir, "Backup")
             ds2 == ensure_directory(ds, backup_dir)
         IN  IF fault = "backup_copy"
             THEN [dirs |-> ds2, fs |-> files, raised |-> FALSE, made |-> FALSE]
             ELSE [dirs |-> ds2,
                   fs |-> write(files, backup_dir, BackupName(strftime(now), name),
                                read(files, dir, name)),
                   raised |-> FALSE, made |-> TRUE]

----------------------------------------------------------------------------
(* Install: state shared by the two implementations                        *)

Totals(files, errors, blocked) == [files |-> files, errors |-> errors, blocked |-> blocked]

\* main_installer.InstallationContext()
InstallationContext ==
    [ force_open_word |-> FALSE, force_open_ppt |-> FALSE, force_open_excel |-> FALSE,
      should_open_document_theme_folder |-> FALSE,
      document_theme_selection_path |-> NoFile,
      should_open_custom_template_folder |-> FALSE,
      custom_template_folder_path_to_open |-> NoValue,
      custom_template_selection_path |-> NoFile,
      custom_template_additional_selection_path |-> NoFile,
      should_open_roaming_template_folder |-> FALSE,
      roaming_template_selection_path |-> NoFile,
      should_open_excel_startup_folder |-> FALSE,
      excel_startup_selection_path |-> NoFile ]

\* common.InstallFlags()
InstallFlags ==
    [ open_word |-> FALSE, open_ppt |-> FALSE, open_excel |-> FALSE,
      open_theme_folder |-> FALSE, open_custom_word_folder |-> FALSE,
      open_custom_ppt_folder |-> FALSE, open_custom_excel_folder |-> FALSE,
      open_roaming_folder |-> FALSE, open_excel_startup_folder |-> FALSE,
      open_document_theme |-> FALSE,
      document_theme_selection |-> NoFile, custom_selection |-> NoFile,
      roaming_selection |-> NoFile, excel_startup_selection |-> NoFile ]

FolderOpenRequest(enabled, path, select) ==
    [enabled |-> enabled, path |-> path, select |-> select]

\* history: what the last install step was given and what it did
\* (prev: the destination's content before the step, Absent if it had none)
Step(op, name, dest, fault, outcome, extracted, overwrote, backed_up, before, prev) ==
    [ op |-> op, name |-> name, dest |-> dest, fault |-> fault, outcome |-> outcome,
      extracted |-> extracted, overwrote |-> overwrote, backed_up |-> backed_up,
      before |-> before, prev |-> prev ]
NoStep == Step("none", FileName("", << >>), NoValue, "none", "none", FALSE, FALSE,
               FALSE, Totals(0, 0, 0), Container("absent", NoText, NoText))

BaseTarget(app, stem, ext, destination) ==
    [app |-> app, filename |-> FileName(stem, ext), destination |-> destination]

\* main_installer.main, lines 177-190: the calls of one run, in order
main_stages == << "base", "detect", "custom", "open", "launch", "idle" >>

\* main with handle_folder_open_requests called before copy_custom_templates
stage_after_opening_first(stage) ==
    LET order == << "base", "detect", "open", "custom", "launch", "idle" >>
    IN  order[(CHOOSE i \in 1..Len(order) : order[i] = stage) + 1]

\* the call main makes once the call of a stage has returned
stage_after(stage) ==
    main_stages[(CHOOSE i \in 1..Len(main_stages) : main_stages[i] = stage) + 1]

\* main_installer.install_base_templates: base_targets
base_targets ==
    << BaseTarget("WORD", "Normal", DOTX, DEFAULT_ROAMING_TEMPLATE_FOLDER),
       BaseTarget("WORD", "Normal", DOTM, DEFAULT_ROAMING_TEMPLATE_FOLDER),
       BaseTarget("WORD", "NormalEmail", DOTX, DEFAULT_ROAMING_TEMPLATE_FOLDER),
       BaseTarget("WORD", "NormalEmail", DOTM, DEFAULT_ROAMING_TEMPLATE_FOLDER),
       BaseTarget("POWERPOINT", "Blank", POTX, DEFAULT_ROAMING_TEMPLATE_FOLDER),
       BaseTarget("POWERPOINT", "Blank", POTM, DEFAULT_ROAMING_TEMPLATE_FOLDER),
       BaseTarget("EXCEL", "Book", XLTX, DEFAULT_EXCEL_STARTUP_FOLDER),
       BaseTarget("EXCEL", "Book", XLTM, DEFAULT_EXCEL_STARTUP_FOLDER),
       BaseTarget("EXCEL", "Sheet", XLTX, DEFAULT_EXCEL_STARTUP_FOLDER),
       BaseTarget("EXCEL", "Sheet", XLTM, DEFAULT_EXCEL_STARTUP_FOLDER) >>

\* the same list for install_template, whose destination roots come from
\* default_destinations() by application label
common_base_target(i) ==
    [base_targets[i] EXCEPT !.destination = default_destinations(template_paths)[base_targets[i].app]]

\* main_installer._capture_selection_for_roaming
capture_selection_for_roaming(ctx, reqs, destination) ==
    IF normalize_path(destination.dir) = normalize_path(DEFAULT_ROAMING_TEMPLATE_FOLDER)
    THEN [ context |-> [ctx EXCEPT
                !.should_open_roaming_template_folder = TRUE,
                !.roaming_template_selection_path =
                    IF @ = NoFile THEN destination ELSE @],
           open_requests |-> reqs ]
    ELSE [ context |-> ctx,
           open_requests |-> Append(reqs,
                FolderOpenRequest(TRUE, normalize_path(destination.dir), destination)) ]

\* main_installer._capture_selection_for_excel_startup
capture_selection_for_excel_startup(ctx, reqs, destination) ==
    IF normalize_path(destination.dir) = normalize_path(DEFAULT_EXCEL_STARTUP_FOLDER)
    THEN [ context |-> [ctx EXCEPT
                !.should_open_excel_startup_folder = TRUE,
                !.excel_startup_selection_path =
                    IF @ = NoFile THEN destination ELSE @],
           open_requests |-> reqs ]
    ELSE [ context |-> ctx,
           open_requests |-> Append(reqs,
                FolderOpenRequest(TRUE, normalize_path(destination.dir), destination)) ]

\* main_installer._install_single_template, lines 329-337: flags after a copy
base_flags_after_copy(ctx, reqs, app, destination) ==
    IF app = "WORD"
    THEN capture_selection_for_roaming([ctx EXCEPT !.force_open_word = TRUE], reqs, destination)
    ELSE IF app = "POWERPOINT"
    THEN capture_selection_for_roaming([ctx EXCEPT !.force_open_ppt = TRUE], reqs, destination)
    ELSE IF app = "EXCEL"
    THEN capture_selection_for_excel_startup([ctx EXCEPT !.force_open_excel = TRUE], reqs, destination)
    ELSE [context |-> ctx, open_requests |-> reqs]

\* an injected fault must hit an operation the step performs
fault_applies(fault, proceeds, overwrote) ==
    \/ fault = "none"
    \/ /\ faults < MaxFaults
       /\ \/ fault = "mkdir_dest"
          \/ fault = "copy" /\ proceeds
          \/ fault \in {"backup_mkdir", "backup_copy"} /\ proceeds /\ overwrote

\* main_installer._install_single_template, one iteration of
\* install_base_templates.  An OSError of ensure_directory (line 300) or of
\* shutil.copy2 (line 322) is not caught and leaves main().
install_single_template ==
    /\ impl = "main" /\ pc = "base" /\ idx \in 1..Len(base_targets)
    /\ \E fault \in Faults :
        LET t == base_targets[idx]
            filename == t.filename
            destination_directory == normalize_path(t.destination)
            destination == FilePath(destination_directory, filename)
            source == staged(staging, filename)
            author_check == check_template_author(FileTarget(filename, source),
                                                  allowed_authors, validation_enabled)
            proceeds == source # Absent /\ author_check.allowed
            overwrote == exists(fs, destination_directory, filename)
            dirs1 == ensure_directory(dirs, destination_directory)
            backup == backup_existing_template(dirs1, fs, destination_directory, filename, fault)
            outcome == IF fault = "mkdir_dest" THEN "raised"
                       ELSE IF source = Absent THEN "missing"
                       ELSE IF ~author_check.allowed THEN "blocked"
                       ELSE IF fault = "copy" THEN "raised"
                       ELSE "installed"
            marked == base_flags_after_copy(context, open_requests, t.app, destination)
        IN  /\ fault_applies(fault, proceeds, overwrote)
            /\ faults' = IF fault = "none" THEN faults ELSE faults + 1
            /\ processed' = processed + 1
            /\ placed' = IF outcome = "installed" THEN placed \cup {destination} ELSE placed
            /\ last' = Step("base", filename, destination_directory, fault, outcome,
                            source # Absent /\ fault # "mkdir_dest" /\ author_check.extracted,
                            proceeds /\ overwrote /\ outcome = "installed",
                            proceeds /\ backup.made, totals,
                            previous(fs, destination_directory, filename))
            /\ overwritten' = IF overwrote /\ outcome = "installed"
                              THEN overwritten \cup {File(destination_directory, filename,
                                                          read(fs, destination_directory, filename))}
                              ELSE overwritten
            /\ dirs' = IF fault = "mkdir_dest" THEN dirs
                       ELSE IF proceeds THEN backup.dirs ELSE dirs1
            /\ fs' = IF ~proceeds \/ fault = "mkdir_dest" THEN fs
                     ELSE IF outcome = "raised" THEN backup.fs
                     ELSE write(backup.fs, destination_directory, filename, source)
            /\ totals' = CASE outcome = "missing" -> [totals EXCEPT !.errors = @ + 1]
                           [] outcome = "blocked" -> [totals EXCEPT !.blocked = @ + 1]
                           [] outcome = "installed" -> [totals EXCEPT !.files = @ + 1]
                           [] OTHER -> totals
            /\ context' = IF outcome = "installed" THEN marked.context ELSE context
            /\ open_requests' = IF outcome = "installed" THEN marked.open_requests
                                ELSE open_requests
            /\ pc' = IF outcome = "raised" THEN "crashed"
                     ELSE IF idx = Len(base_targets) THEN stage_after("base") ELSE "base"
            /\ idx' = IF outcome = "raised" THEN idx ELSE idx + 1
    /\ UNCHANGED << probe, config,
                    scan, detected, template_paths, now, flags, requests, launched, runs, uninstalls,
                    finished >>

----------------------------------------------------------------------------
(* Custom pass of the main installer                                       *)

\* the custom (non-base) template files the staging folder may hold
CustomNames ==
    { FileName("Report", DOTX), FileName("Macro", DOTM),
      FileName("Deck", POTX), FileName("Slides", POTM),
      FileName("Ledger", XLTX), FileName("Ledger", XLTM),
      FileName("Brand", THMX) }

AllNames == BASE_TEMPLATE_NAMES \cup CustomNames

\* utils.iter_template_files visits sorted(SUPPORTED_TEMPLATE_EXTENSIONS),
\* and within one extension the directory order
ScanOrder ==
    << FileName("Normal", DOTM), FileName("NormalEmail", DOTM), FileName("Macro", DOTM),
       FileName("Normal", DOTX), FileName("NormalEmail", DOTX), FileName("Report", DOTX),
       FileName("Blank", POTM), FileName("Slides", POTM),
       FileName("Blank", POTX), FileName("Deck", POTX),
       FileName("Brand", THMX),
       FileName("Book", XLTM), FileName("Sheet", XLTM), FileName("Ledger", XLTM),
       FileName("Book", XLTX), FileName("Sheet", XLTX), FileName("Ledger", XLTX) >>

RECURSIVE present_from(_, _)
present_from(st, i) ==
    IF i > Len(ScanOrder) THEN << >>
    ELSE IF staged(st, ScanOrder[i]) # Absent THEN << ScanOrder[i] >> \o present_from(st, i + 1)
    ELSE present_from(st, i + 1)

\* utils.iter_template_files / common.iter_template_files on the staging folder
iter_template_files(st) == present_from(st, 1)

\* the test of the custom pass with no name recognised as a base template
is_base_template_never(filename) == FALSE

\* `filename in BASE_TEMPLATE_NAMES`, the first test of both custom passes
is_base_template(filename) == filename \in BASE_TEMPLATE_NAMES

\* _destination_for_extension with the PowerPoint branch returning word_path
destination_for_extension_word_first(extension, word_path, ppt_path, excel_path, document_theme_path) ==
    IF extension \in {DOTX, DOTM, POTX, POTM} THEN word_path
    ELSE IF extension \in {XLTX, XLTM} THEN excel_path
    ELSE IF extension = THMX THEN document_theme_path
    ELSE NoValue

\* main_installer._destination_for_extension; NoValue is None
destination_for_extension(extension, word_path, ppt_path, excel_path, document_theme_path) ==
    IF extension \in {DOTX, DOTM} THEN word_path
    ELSE IF extension \in {POTX, POTM} THEN ppt_path
    ELSE IF extension \in {XLTX, XLTM} THEN excel_path
    ELSE IF extension = THMX THEN document_theme_path
    ELSE NoValue

\* one of the "selection" branches of _update_flags_after_copy
SelectCustom(ctx, destination, installed_path) ==
    [ctx EXCEPT !.should_open_custom_template_folder = TRUE,
                !.custom_template_folder_path_to_open = destination,
                !.custom_template_selection_path = IF @ = NoFile THEN installed_path ELSE @]

SelectAdditional(ctx, destination, installed_path) ==
    [ctx EXCEPT !.should_open_custom_template_folder = TRUE,
                !.custom_template_folder_path_to_open = destination,
                !.custom_template_additional_selection_path =
                    IF @ = NoFile THEN installed_path ELSE @]

SelectRoaming(ctx, installed_path) ==
    [ctx EXCEPT !.should_open_roaming_template_folder = TRUE,
                !.roaming_template_selection_path = IF @ = NoFile THEN installed_path ELSE @]

SelectExcelStartup(ctx, installed_path) ==
    [ctx EXCEPT !.should_open_excel_startup_folder = TRUE,
                !.excel_startup_selection_path = IF @ = NoFile THEN installed_path ELSE @]

\* main_installer._update_flags_after_copy
update_flags_after_copy(ctx, reqs, dest, filename, extension) ==
    LET destination == normalize_path(dest)
        installed_path == FilePath(destination, filename)
        custom_template_path == normalize_path(DEFAULT_CUSTOM_OFFICE_TEMPLATE_PATH)
        custom_additional_path == normalize_path(DEFAULT_CUSTOM_OFFICE_ADDITIONAL_TEMPLATE_PATH)
        roaming_template_folder == normalize_path(DEFAULT_ROAMING_TEMPLATE_FOLDER)
        excel_startup_folder == normalize_path(DEFAULT_EXCEL_STARTUP_FOLDER)
        request == Append(reqs, FolderOpenRequest(TRUE, destination, installed_path))
    IN  IF extension \in {DOTX, DOTM}
        THEN LET c == [ctx EXCEPT !.force_open_word = TRUE]
             IN  IF destination = custom_template_path
                 THEN [context |-> SelectCustom(c, destination, installed_path),
                       open_requests |-> reqs]
                 ELSE IF destination = custom_additional_path
                 THEN [context |-> SelectAdditional(c, destination, installed_path),
                       open_requests |-> reqs]
                 ELSE IF destination = roaming_template_folder
                 THEN [context |-> SelectRoaming(c, installed_path), open_requests |-> reqs]
                 ELSE [context |-> c, open_requests |-> request]
        ELSE IF extension \in {POTX, POTM}
        THEN LET c == [ctx EXCEPT !.force_open_ppt = TRUE]
             IN  IF destination \in {custom_template_path, custom_additional_path,
                                     roaming_template_folder}
                 THEN [context |-> SelectCustom(c, destination, installed_path),
                       open_requests |-> reqs]
                 ELSE [context |-> c, open_requests |-> request]
        ELSE IF extension \in {XLTX, XLTM}
        THEN LET c == [ctx EXCEPT !.force_open_excel = TRUE]
             IN  IF destination = custom_template_path
                 THEN [context |-> SelectCustom(c, destination, installed_path),
                       open_requests |-> reqs]
                 ELSE IF destination = custom_additional_path
                 THEN [context |-> SelectAdditional(c, destination, installed_path),
                       open_requests |-> reqs]
                 ELSE IF destination = roaming_template_folder
                 THEN [context |-> SelectRoaming(c, installed_path), open_requests |-> reqs]
                 ELSE IF destination = excel_startup_folder
                 THEN [context |-> SelectExcelStartup(c, installed_path),
                       open_requests |-> reqs]
                 ELSE [context |-> c, open_requests |-> request]
        ELSE IF extension = THMX
        THEN [context |-> [ctx EXCEPT
                    !.should_open_document_theme_folder = TRUE,
                    !.document_theme_selection_path =
                        IF @ = NoFile THEN installed_path ELSE @],
              open_requests |-> reqs]
        ELSE [context |-> ctx, open_requests |-> reqs]

\* office_paths.detect_office_paths as main() calls it between the passes:
\* resolves the custom destinations and creates them (a failed mkdir is
\* only logged); the custom scan starts right after.
detect_paths ==
    /\ impl = "main" /\ pc = "detect"
    /\ LET paths == detect_office_paths(winreg)
           made == {paths.document_theme, paths.default_custom_dir,
                    paths.word, paths.powerpoint, paths.excel}
       IN  /\ detected' = paths
           /\ dirs' = UNION {ensure_directory(dirs, d) : d \in made}
    /\ scan' = iter_template_files(staging)
    /\ pc' = IF iter_template_files(staging) = << >> THEN stage_after("custom")
             ELSE stage_after("detect")
    /\ UNCHANGED << probe, config, template_paths,
                    idx, fs, now, totals, context, open_requests, flags, requests,
                    launched, last, processed, placed, overwritten, finished, runs, uninstalls, faults >>

\* main_installer.copy_custom_templates, one iteration of its loop
copy_custom_templates ==
    /\ impl = "main" /\ pc = "custom" /\ scan # << >>
    /\ \E fault \in Faults :
        LET filename == Head(scan)
            extension == suffix_lower(filename)
            source == staged(staging, filename)
            is_base == is_base_template(filename)
            destination == destination_for_extension(extension,
                               normalize_path(detected.word),
                               normalize_path(detected.powerpoint),
                               normalize_path(detected.excel),
                               normalize_path(detected.document_theme))
            skipped == is_base \/ destination = NoValue
            result == check_template_author(FileTarget(filename, source),
                                            allowed_authors, validation_enabled)
            proceeds == ~skipped /\ result.allowed
            overwrote == exists(fs, destination, filename)
            outcome == IF skipped THEN "skipped"
                       ELSE IF ~result.allowed THEN "blocked"
                       ELSE IF fault \in {"mkdir_dest", "copy"} THEN "copy_error"
                       ELSE "installed"
            marked == update_flags_after_copy(context, open_requests, destination,
                                              filename, extension)
        IN  /\ fault \in {"none", "mkdir_dest", "copy"}
            /\ fault_applies(fault, proceeds, overwrote)
            /\ fault = "mkdir_dest" => proceeds
            /\ faults' = IF fault = "none" THEN faults ELSE faults + 1
            /\ processed' = IF skipped THEN processed ELSE processed + 1
            /\ placed' = IF outcome = "installed"
                         THEN placed \cup {FilePath(destination, filename)} ELSE placed
            /\ last' = Step("custom", filename, destination, fault, outcome,
                            ~skipped /\ result.extracted,
                            overwrote /\ outcome = "installed", FALSE, totals,
                            previous(fs, destination, filename))
            /\ overwritten' = IF overwrote /\ outcome = "installed"
                              THEN overwritten \cup {File(destination, filename,
                                                          read(fs, destination, filename))}
                              ELSE overwritten
            /\ dirs' = IF proceeds /\ fault # "mkdir_dest"
                       THEN ensure_directory(dirs, destination) ELSE dirs
            /\ fs' = IF outcome = "installed"
                     THEN write(fs, destination, filename, source) ELSE fs
            /\ totals' = CASE outcome = "blocked" -> [totals EXCEPT !.blocked = @ + 1]
                           [] outcome = "installed" -> [totals EXCEPT !.files = @ + 1]
                           [] outcome = "copy_error" -> [totals EXCEPT !.errors = @ + 1]
                           [] OTHER -> totals
            /\ context' = IF outcome = "installed" THEN marked.context ELSE context
            /\ open_requests' = IF outcome = "installed" THEN marked.open_requests
                                ELSE open_requests
    /\ scan' = Tail(scan)
    /\ pc' = IF Tail(scan) = << >> THEN stage_after("custom") ELSE "custom"
    /\ UNCHANGED << probe, config,
                    idx, detected, template_paths, now, flags, requests, launched, runs, uninstalls,
                    finished >>

\* main_installer.handle_folder_open_requests: the list handed to
\* folder_opener.open_template_folders
handle_folder_open_requests ==
    /\ impl = "main" /\ pc = "open"
    /\ requests' =
         open_requests
         \o (IF context.should_open_document_theme_folder
             THEN << FolderOpenRequest(TRUE, detected.document_theme,
                                       context.document_theme_selection_path) >>
             ELSE << >>)
         \o (IF context.should_open_custom_template_folder
                /\ context.custom_template_folder_path_to_open # NoValue
             THEN << FolderOpenRequest(TRUE, context.custom_template_folder_path_to_open,
                        IF context.custom_template_selection_path # NoFile
                        THEN context.custom_template_selection_path
                        ELSE context.custom_template_additional_selection_path) >>
             ELSE << >>)
         \o (IF context.should_open_roaming_template_folder
             THEN << FolderOpenRequest(TRUE, DEFAULT_ROAMING_TEMPLATE_FOLDER,
                                       context.roaming_template_selection_path) >>
             ELSE << >>)
         \o (IF context.should_open_excel_startup_folder
             THEN << FolderOpenRequest(TRUE, DEFAULT_EXCEL_STARTUP_FOLDER,
                                       context.excel_startup_selection_path) >>
             ELSE << >>)
    /\ pc' = stage_after("open")
    /\ UNCHANGED << probe, config,
                    idx, scan, detected, template_paths, dirs, fs, now, totals, context, open_requests,
                    flags, launched, last, processed, placed, overwritten, finished, runs, uninstalls,
                    faults >>

\* main_installer.launch_office_apps: the applications to start
launch_office_apps ==
    /\ impl = "main" /\ pc = "launch"
    /\ launched' = (IF context.force_open_word THEN {"winword.exe"} ELSE {})
                   \cup (IF context.force_open_ppt THEN {"powerpnt.exe"} ELSE {})
                   \cup (IF context.force_open_excel THEN {"excel.exe"} ELSE {})
    /\ pc' = stage_after("launch")
    /\ finished' = Append(finished, totals)
    /\ UNCHANGED << probe, config,
                    idx, scan, detected, template_paths, dirs, fs, now, totals, context, open_requests,
                    flags, requests, last, processed, placed, overwritten, runs, uninstalls,
                    faults >>

----------------------------------------------------------------------------
(* The install functions of common.py                                      *)

\* common._mark_folder_open_flag
mark_folder_open_flag(fl, destination_root, destinations) ==
    [fl EXCEPT
        !.open_theme_folder = @ \/ destination_root = destinations.THEMES,
        !.open_custom_word_folder =
            @ \/ destination_root \in {destinations.CUSTOM, destinations.WORD_CUSTOM},
        !.open_custom_ppt_folder = @ \/ destination_root = destinations.POWERPOINT_CUSTOM,
        !.open_custom_excel_folder =
            @ \/ destination_root \in {destinations.EXCEL_CUSTOM, destinations.CUSTOM_ALT},
        !.open_roaming_folder = @ \/ destination_root = destinations.ROAMING,
        !.open_excel_startup_folder = @ \/ destination_root = destinations.EXCEL]

\* common.install_template, lines 455-476
install_template_flags(fl, app_label, destination_root, filename, paths) ==
    LET destination == FilePath(destination_root, filename)
        f1 == IF app_label = "WORD"
              THEN [fl EXCEPT !.open_word = TRUE,
                              !.roaming_selection =
                                  IF destination_root = paths.ROAMING THEN destination ELSE @]
              ELSE IF app_label = "POWERPOINT"
              THEN [fl EXCEPT !.open_ppt = TRUE,
                              !.roaming_selection =
                                  IF destination_root = paths.ROAMING THEN destination ELSE @]
              ELSE IF app_label = "EXCEL"
              THEN [fl EXCEPT !.open_excel = TRUE,
                              !.excel_startup_selection =
                                  IF destination_root = paths.EXCEL THEN destination ELSE @]
              ELSE fl
        f2 == IF destination_root = paths.CUSTOM_WORD
              THEN [f1 EXCEPT !.custom_selection = destination,
                              !.open_custom_word_folder = TRUE]
              ELSE f1
        f3 == IF destination_root = paths.CUSTOM_ADDITIONAL
              THEN [f2 EXCEPT !.custom_selection = IF @ = NoFile THEN destination ELSE @,
                              !.open_custom_excel_folder = TRUE]
              ELSE f2
    IN  IF destination_root = paths.ROAMING /\ suffix_lower(filename) = THMX
        THEN [f3 EXCEPT !.open_document_theme = TRUE,
                        !.document_theme_selection = destination]
        ELSE f3

\* common.install_template, one call per base target.  ensure_directory
\* (line 424) and backup_existing's ensure_directory (line 587) are outside
\* the try block; the copy itself is inside it.
install_template ==
    /\ impl = "common" /\ pc = "base" /\ idx \in 1..Len(base_targets)
    /\ \E fault \in Faults :
        LET t == common_base_target(idx)
            filename == t.filename
            destination_root == normalize_path(t.destination)
            source == staged(staging, filename)
            author_check == common_check_template_author(FileTarget(filename, source),
                                allowed_authors, validation_enabled)
            proceeds == source # Absent /\ author_check.allowed
            overwrote == exists(fs, destination_root, filename)
            dirs1 == ensure_directory(dirs, destination_root)
            backup == backup_existing(dirs1, fs, destination_root, filename, fault)
            outcome == IF fault = "mkdir_dest" THEN "raised"
                       ELSE IF source = Absent THEN "missing"
                       ELSE IF ~author_check.allowed THEN "blocked"
                       ELSE IF backup.raised THEN "raised"
                       ELSE IF fault = "copy" THEN "copy_error"
                       ELSE "installed"
        IN  /\ fault_applies(fault, proceeds, overwrote)
            /\ faults' = IF fault = "none" THEN faults ELSE faults + 1
            /\ processed' = processed + 1
            /\ placed' = IF outcome = "installed"
                         THEN placed \cup {FilePath(destination_root, filename)} ELSE placed
            /\ last' = Step("base", filename, destination_root, fault, outcome,
                            source # Absent /\ fault # "mkdir_dest" /\ author_check.extracted,
                            proceeds /\ overwrote /\ outcome = "installed",
                            proceeds /\ backup.made, totals,
                            previous(fs, destination_root, filename))
            /\ overwritten' = IF overwrote /\ outcome = "installed"
                              THEN overwritten \cup {File(destination_root, filename,
                                                          read(fs, destination_root, filename))}
                              ELSE overwritten
            /\ dirs' = IF fault = "mkdir_dest" THEN dirs
                       ELSE IF proceeds THEN backup.dirs ELSE dirs1
            /\ fs' = IF ~proceeds \/ fault = "mkdir_dest" THEN fs
                     ELSE IF outcome = "installed"
                     THEN write(backup.fs, destination_root, filename, source)
                     ELSE backup.fs
            /\ totals' = CASE outcome = "missing" -> [totals EXCEPT !.errors = @ + 1]
                           [] outcome = "blocked" -> [totals EXCEPT !.blocked = @ + 1]
                           [] outcome = "installed" -> [totals EXCEPT !.files = @ + 1]
                           [] outcome = "copy_error" -> [totals EXCEPT !.errors = @ + 1]
                           [] OTHER -> totals
            /\ flags' = IF outcome = "installed"
                        THEN install_template_flags(
                                 mark_folder_open_flag(flags, destination_root,
                                                       default_destinations(template_paths)),
                                 t.app, destination_root, filename,
                                 template_paths)
                        ELSE flags
            /\ pc' = IF outcome = "raised" THEN "crashed"
                     ELSE IF idx < Len(base_targets) THEN "base"
                     ELSE IF iter_template_files(staging) = << >> THEN "open"
                     ELSE "custom"
            /\ idx' = IF outcome = "raised" THEN idx ELSE idx + 1
            /\ scan' = IF outcome # "raised" /\ idx = Len(base_targets)
                       THEN iter_template_files(staging) ELSE scan
    /\ UNCHANGED << probe, config,
                    detected, template_paths, now, context, open_requests, requests, launched, runs,
                    uninstalls,
                    finished >>

\* common._destination_for_extension
common_destination_for_extension(extension, destinations) ==
    IF extension \in {DOTX, DOTM} THEN destinations.WORD
    ELSE IF extension \in {POTX, POTM} THEN destinations.POWERPOINT
    ELSE IF extension \in {XLTX, XLTM} THEN destinations.EXCEL
    ELSE IF extension = THMX THEN destinations.THEMES
    ELSE NoValue

\* common.copy_custom_templates, lines 485-492: destination of one file
common_custom_destination(extension, destinations) ==
    IF extension \in {XLTX, XLTM} THEN destinations.EXCEL_CUSTOM
    ELSE IF extension \in {DOTX, DOTM} THEN destinations.WORD_CUSTOM
    ELSE IF extension \in {POTX, POTM} THEN destinations.POWERPOINT_CUSTOM
    ELSE common_destination_for_extension(extension, destinations)

\* common.copy_custom_templates, lines 526-548
common_custom_flags(fl, extension, destination_root, filename, paths) ==
    LET installed == FilePath(destination_root, filename)
    IN  [fl EXCEPT
            !.open_word = @ \/ extension \in {DOTX, DOTM},
            !.open_ppt = @ \/ extension \in {POTX, POTM},
            !.open_excel = @ \/ extension \in {XLTX, XLTM},
            !.open_custom_word_folder = @ \/ destination_root = paths.CUSTOM_WORD,
            !.open_custom_ppt_folder =
                @ \/ destination_root \in {paths.CUSTOM_PPT, paths.CUSTOM_WORD},
            !.open_custom_excel_folder =
                @ \/ destination_root \in {paths.CUSTOM_EXCEL, paths.CUSTOM_ADDITIONAL},
            !.roaming_selection = IF destination_root = paths.ROAMING THEN installed ELSE @,
            !.open_roaming_folder = @ \/ destination_root = paths.ROAMING,
            !.excel_startup_selection =
                IF destination_root = paths.EXCEL THEN installed ELSE @,
            !.open_excel_startup_folder = @ \/ destination_root = paths.EXCEL,
            !.open_document_theme = @ \/ extension = THMX,
            !.document_theme_selection = IF extension = THMX THEN installed ELSE @,
            !.custom_selection =
                IF destination_root \in {paths.CUSTOM_WORD, paths.CUSTOM_ADDITIONAL}
                   /\ @ = NoFile
                THEN installed ELSE @]

\* common.copy_custom_templates, one iteration of its loop
common_copy_custom_templates ==
    /\ impl = "common" /\ pc = "custom" /\ scan # << >>
    /\ \E fault \in Faults :
        LET filename == Head(scan)
            extension == suffix_lower(filename)
            source == staged(staging, filename)
            destinations == default_destinations(template_paths)
            destination_root == common_custom_destination(extension, destinations)
            skipped == is_base_template(filename) \/ destination_root = NoValue
            result == common_check_template_author(FileTarget(filename, source),
                                                   allowed_authors, validation_enabled)
            proceeds == ~skipped /\ result.allowed
            overwrote == exists(fs, destination_root, filename)
            outcome == IF skipped THEN "skipped"
                       ELSE IF ~result.allowed THEN "blocked"
                       ELSE IF fault \in {"mkdir_dest", "copy"} THEN "copy_error"
                       ELSE "installed"
        IN  /\ fault \in {"none", "mkdir_dest", "copy"}
            /\ fault_applies(fault, proceeds, overwrote)
            /\ fault = "mkdir_dest" => proceeds
            /\ faults' = IF fault = "none" THEN faults ELSE faults + 1
            /\ processed' = IF skipped THEN processed ELSE processed + 1
            /\ placed' = IF outcome = "installed"
                         THEN placed \cup {FilePath(destination_root, filename)} ELSE placed
            /\ last' = Step("custom", filename, destination_root, fault, outcome,
                            ~skipped /\ result.extracted,
                            overwrote /\ outcome = "installed", FALSE, totals,
                            previous(fs, destination_root, filename))
            /\ overwritten' = IF overwrote /\ outcome = "installed"
                              THEN overwritten \cup {File(destination_root, filename,
                                                          read(fs, destination_root, filename))}
                              ELSE overwritten
            /\ dirs' = IF proceeds /\ fault # "mkdir_dest"
                       THEN ensure_directory(dirs, destination_root) ELSE dirs
            /\ fs' = IF outcome = "installed"
                     THEN write(fs, destination_root, filename, source) ELSE fs
            /\ totals' = CASE outcome = "blocked" -> [totals EXCEPT !.blocked = @ + 1]
                           [] outcome = "installed" -> [totals EXCEPT !.files = @ + 1]
                           [] outcome = "copy_error" -> [totals EXCEPT !.errors = @ + 1]
                           [] OTHER -> totals
            /\ flags' = IF outcome = "installed"
                        THEN common_custom_flags(
                                 mark_folder_open_flag(flags, destination_root, destinations),
                                 extension, destination_root, filename,
                                 template_paths)
                        ELSE flags
    /\ scan' = Tail(scan)
    /\ pc' = IF Tail(scan) = << >> THEN "open" ELSE "custom"
    /\ UNCHANGED << probe, config,
                    idx, detected, template_paths, now, context, open_requests, requests, launched,
                    runs, uninstalls,
                    finished >>

\* common.open_template_folders(paths, design_mode, flags): the folders it opens
open_template_folders ==
    /\ impl = "common" /\ pc = "open"
    /\ LET paths == template_paths
           Req(flag, target) ==
               IF flag THEN << FolderOpenRequest(TRUE, target, NoFile) >> ELSE << >>
       IN  requests' =
               Req(flags.open_theme_folder, paths.THEME)
               \o Req(flags.open_custom_word_folder, paths.CUSTOM_WORD)
               \o Req(flags.open_custom_ppt_folder, paths.CUSTOM_PPT)
               \o Req(flags.open_custom_excel_folder, paths.CUSTOM_EXCEL)
               \o Req(flags.open_roaming_folder, paths.ROAMING)
               \o Req(flags.open_excel_startup_folder, paths.EXCEL)
               \o Req(flags.open_custom_excel_folder, paths.CUSTOM_ADDITIONAL)
    /\ pc' = "launch"
    /\ UNCHANGED << probe, config,
                    idx, scan, detected, template_paths, dirs, fs, now, totals, context, open_requests,
                    flags, launched, last, processed, placed, overwritten, finished, runs, uninstalls,
                    faults >>

\* common.launch_office_apps
common_launch_office_apps ==
    /\ impl = "common" /\ pc = "launch"
    /\ launched' = (IF flags.open_word THEN {"winword.exe"} ELSE {})
                   \cup (IF flags.open_ppt THEN {"powerpnt.exe"} ELSE {})
                   \cup (IF flags.open_excel THEN {"excel.exe"} ELSE {})
    /\ pc' = "idle"
    /\ finished' = Append(finished, totals)
    /\ UNCHANGED << probe, config,
                    idx, scan, detected, template_paths, dirs, fs, now, totals, context, open_requests,
                    flags, requests, last, processed, placed, overwritten, runs, uninstalls,
                    faults >>

----------------------------------------------------------------------------
(* Uninstall (uninstaller.main, lines 44-46)                               *)

DictItem(key, files) == [key |-> key, files |-> files]

\* a Python dict literal: a repeated key keeps the value written last
dict_literal(items) ==
    [k \in {items[i].key : i \in 1..Len(items)} |->
        items[CHOOSE i \in 1..Len(items) :
                /\ items[i].key = k
                /\ \A j \in 1..Len(items) : items[j].key = k => j <= i].files]

\* common.remove_installed_templates: the targets dict
uninstall_targets(destinations) ==
    dict_literal(<<
        DictItem(destinations.WORD,
                 { FileName("Normal", DOTX), FileName("Normal", DOTM),
                   FileName("NormalEmail", DOTX), FileName("NormalEmail", DOTM) }),
        DictItem(destinations.POWERPOINT,
                 { FileName("Blank", POTX), FileName("Blank", POTM) }),
        DictItem(destinations.EXCEL,
                 { FileName("Book", XLTX), FileName("Book", XLTM),
                   FileName("Sheet", XLTX), FileName("Sheet", XLTM) }),
        DictItem(destinations.THEMES, {}) >>)

\* Path.unlink with no exists() test before it and no handler around it
delete_target_unchecked(files, dir, name) ==
    [ fs |-> unlink(files, dir, name), raised |-> ~exists(files, dir, name) ]

\* a deletion that removes every file under dir whose name ends with name
delete_target_by_suffix(files, dir, name) ==
    [ fs |-> { f \in files : ~(/\ Len(f.dir) >= Len(dir)
                               /\ SubSeq(f.dir, 1, Len(dir)) = dir
                               /\ [f.name EXCEPT !.ts = NoStamp] = name) },
      raised |-> FALSE ]

\* "if target.exists(): target.unlink()" inside try / except OSError
\* (common.py lines 561-566 and 575-580): an absent target is skipped
delete_target(files, dir, name) ==
    [ fs |-> IF exists(files, dir, name) THEN unlink(files, dir, name) ELSE files,
      raised |-> FALSE ]

\* the files left once every deletion of a set of deletions has been done
after_deletions(files, results) == {f \in files : \A r \in results : f \in r.fs}

\* the uninstall step that has begun: "repeat" when the same tool has just
\* run to its end and nothing else has happened since (history)
Uninstalling(op, tool) ==
    [NoStep EXCEPT !.op = op,
                   !.outcome = IF last.op = tool THEN "repeat" ELSE "first"]

\* common.remove_installed_templates
remove_installed_templates ==
    /\ pc = "idle" /\ uninstalls < MaxUninstalls
    /\ template_paths' = resolve_template_paths(winreg)
    /\ LET targets == uninstall_targets(default_destinations(resolve_template_paths(winreg)))
           results == UNION { { delete_target(fs, normalize_path(root), name) :
                                  name \in targets[root] } : root \in DOMAIN targets }
       IN  /\ fs' = after_deletions(fs, results)
           /\ pc' = IF \E r \in results : r.raised THEN "crashed" ELSE "uninstall"
    /\ uninstalls' = uninstalls + 1
    /\ last' = Uninstalling("remove", "uninstall")
    /\ UNCHANGED << probe, config,
                    idx, scan, detected, dirs, now, totals, context, open_requests,
                    flags, requests, launched, processed, placed, overwritten, finished, runs, faults >>

\* the values of a destinations mapping
dict_values(destinations) == {destinations[k] : k \in DOMAIN destinations}

\* common.delete_custom_copies
delete_custom_copies ==
    /\ pc = "uninstall"
    /\ LET names == {n \in Range(iter_template_files(staging)) : n \notin BASE_TEMPLATE_NAMES}
           roots == {normalize_path(d) : d \in dict_values(default_destinations(template_paths))}
           results == { delete_target(fs, root, name) : root \in roots, name \in names }
       IN  /\ fs' = after_deletions(fs, results)
           /\ pc' = IF \E r \in results : r.raised THEN "crashed" ELSE "idle"
    /\ last' = [last EXCEPT !.op = "uninstall"]
    /\ UNCHANGED << probe, config,
                    idx, scan, detected, template_paths, dirs, now, totals, context, open_requests,
                    flags, requests, launched, processed, placed, overwritten, finished, runs, uninstalls,
                    faults >>

\* delete_normal_templates.py
TARGET_FILES ==
    { FileName("Normal", DOTX), FileName("Normal", DOTM),
      FileName("NormalEmail", DOTX), FileName("NormalEmail", DOTM) }

\* delete_normal_templates.delete_normal_templates, TEMPLATE_DIR being the
\* ROAMING path common.py resolves when the script imports it
delete_normal_templates ==
    /\ pc = "idle" /\ uninstalls < MaxUninstalls
    /\ template_paths' = resolve_template_paths(winreg)
    /\ LET TEMPLATE_DIR == resolve_template_paths(winreg).ROAMING
           results == IF TEMPLATE_DIR \in dirs
                      THEN { delete_target(fs, TEMPLATE_DIR, name) : name \in TARGET_FILES }
                      ELSE {}
       IN  /\ fs' = after_deletions(fs, results)
           /\ pc' = IF \E r \in results : r.raised THEN "crashed" ELSE "idle"
    /\ uninstalls' = uninstalls + 1
    /\ last' = Uninstalling("delete_normal", "delete_normal")
    /\ UNCHANGED << probe, config,
                    idx, scan, detected, dirs, now, totals, context, open_requests,
                    flags, requests, launched, processed, placed, overwritten, finished, runs, faults >>

----------------------------------------------------------------------------
(* Orchestration                                                           *)

\* main(), lines 174-179: a run starts with fresh totals and flags
start_install ==
    /\ pc = "idle" /\ runs < MaxRuns
    /\ runs' = runs + 1
    /\ pc' = "base"
    /\ idx' = 1
    /\ scan' = << >>
    /\ totals' = Totals(0, 0, 0)
    /\ context' = InstallationContext
    /\ open_requests' = << >>
    /\ flags' = InstallFlags
    /\ requests' = << >>
    /\ launched' = {}
    /\ processed' = 0
    /\ last' = NoStep
    /\ overwritten' = {}
    /\ template_paths' = IF impl = "common" THEN resolve_template_paths(winreg)
                         ELSE template_paths
    /\ UNCHANGED << probe, config,
                    detected, dirs, fs, now, placed, finished, uninstalls, faults >>

\* time passes between two install runs (the clock is read by the backup
\* step only)
tick ==
    /\ pc = "idle" /\ now < MaxClock /\ runs \in 1..(MaxRuns - 1)
    /\ now' = now + 1
    /\ UNCHANGED << probe, config,
                    pc, idx, scan, detected, template_paths, dirs, fs, totals, context, open_requests,
                    flags, requests, launched, last, processed, placed, overwritten, finished, runs,
                    uninstalls, faults >>

\* containers a staged template may have
GoodAuthor == DEFAULT_ALLOWED_TEMPLATE_AUTHORS[1]
BadAuthor == << "e","v","i","l" >>
OldAuthor == << "o","l","d" >>
Good == Container("xml", GoodAuthor, NoText)
Bad == Container("xml", BadAuthor, NoText)
NotZip == Container("notzip", NoText, NoText)
Old == Container("xml", OldAuthor, NoText)

StagedContainers == {Good, Bad, NotZip}

StagingCandidates ==
    { FileName("Normal", DOTX), FileName("Book", XLTX),
      FileName("Report", DOTX), FileName("Brand", THMX) }

StagingChoices ==
    UNION { [S -> StagedContainers] :
              S \in {T \in SUBSET StagingCandidates : Cardinality(T) <= MaxStaged} }

\* the configuration store: unavailable, or holding a Word override that
\* is spelled with a trailing separator
RegistryScenarios ==
    { Registry(FALSE, {}),
      Registry(TRUE, { RegValue(<< "16.0", "Word", "Options" >>, "PersonalTemplates",
                                << "D:", "Templates", "" >>) }) }

\* files already installed before the first run
InitialFiles ==
    { { File(DEFAULT_ROAMING_TEMPLATE_FOLDER, FileName("Normal", DOTX), Old) } }

InstallAuthorArgs == { NoneArg }

\* what the standalone check prints and the exit code of the process
\* (main_installer.main lines 169-172)
CliOutcome(result) ==
    [ printed |-> as_cli_output(result), code |-> IF result.allowed THEN 0 ELSE 1 ]

NoProbe == [ impl |-> "none", target |-> MissingTarget, arg |-> NoneArg,
             validation |-> FALSE,
             result |-> AuthorCheckResult(FALSE, "none", << >>, FALSE),
             cli |-> [ printed |-> "", code |-> 0 ] ]

\* the state of a machine on which no installer has run yet
InitMachine(initial) ==
    /\ probe = NoProbe
    /\ pc = "idle"
    /\ idx = 1
    /\ scan = << >>
    /\ detected = NoPaths
    /\ template_paths = NoTemplatePaths
    /\ fs \in initial
    /\ dirs = UNION {ensure_directory({}, f.dir) : f \in fs}
    /\ now = 0
    /\ totals = Totals(0, 0, 0)
    /\ context = InstallationContext
    /\ open_requests = << >>
    /\ flags = InstallFlags
    /\ requests = << >>
    /\ launched = {}
    /\ last = NoStep
    /\ processed = 0
    /\ placed = {}
    /\ overwritten = {}
    /\ finished = << >>
    /\ runs = 0
    /\ uninstalls = 0

InitRun == InitMachine(InitialFiles)

InitConfig ==
    /\ impl \in {"main", "common"}
    /\ staging \in StagingChoices
    /\ allowed_authors \in InstallAuthorArgs
    /\ validation_enabled \in BOOLEAN
    /\ winreg \in RegistryScenarios
    /\ InitRun

Init ==
    /\ InitConfig
    /\ faults = 0

\* one installer process after another, any step of which may hit an I/O fault
Next ==
    \/ start_install
    \/ install_single_template
    \/ detect_paths
    \/ copy_custom_templates
    \/ handle_folder_open_requests
    \/ launch_office_apps
    \/ install_template
    \/ common_copy_custom_templates
    \/ open_template_folders
    \/ common_launch_office_apps

Spec == Init /\ [][Next]_vars

\* installs, uninstalls and the passing of time on a healthy disk
InitLifecycle ==
    /\ InitConfig
    /\ faults = MaxFaults

NextLifecycle ==
    \/ start_install
    \/ install_single_template
    \/ detect_paths
    \/ copy_custom_templates
    \/ handle_folder_open_requests
    \/ launch_office_apps
    \/ install_template
    \/ common_copy_custom_templates
    \/ open_template_folders
    \/ common_launch_office_apps
    \/ remove_installed_templates
    \/ delete_custom_copies
    \/ tick

SpecLifecycle == InitLifecycle /\ [][NextLifecycle]_vars

\* install runs followed by runs of the two removal tools (uninstaller.py
\* and delete_normal_templates.py), in any order and number
NextUninstall ==
    \/ uninstalls = 0 /\ start_install
    \/ install_single_template
    \/ detect_paths
    \/ copy_custom_templates
    \/ handle_folder_open_requests
    \/ launch_office_apps
    \/ install_template
    \/ common_copy_custom_templates
    \/ open_template_folders
    \/ common_launch_office_apps
    \/ remove_installed_templates
    \/ delete_custom_copies
    \/ delete_normal_templates

SpecUninstall == InitLifecycle /\ [][NextUninstall]_vars

\* a machine that also holds files the installer never placed: a template of
\* the user's own in a destination directory, and files that carry the name
\* of a base template and of a staged template outside every destination
UserFiles ==
    { { File(DEFAULT_ROAMING_TEMPLATE_FOLDER, FileName("Normal", DOTX), Old),
        File(DEFAULT_ROAMING_TEMPLATE_FOLDER, FileName("Mine", DOTX), Old),
        File(Join(DEFAULT_ROAMING_TEMPLATE_FOLDER, "Archive"), FileName("Normal", DOTX), Old),
        File(Join(DOCUMENTS_PATH, "Archive"), FileName("Report", DOTX), Old) } }

InitKeep ==
    /\ impl \in {"main", "common"}
    /\ staging \in StagingChoices
    /\ allowed_authors \in InstallAuthorArgs
    /\ validation_enabled \in BOOLEAN
    /\ winreg \in RegistryScenarios
    /\ InitMachine(UserFiles)
    /\ faults = MaxFaults

SpecKeep == InitKeep /\ [][NextUninstall]_vars

\* staging folders of custom templates only, of every supported extension
RoutingStaging ==
    UNION { [S -> {Good, Bad}] :
              S \in {T \in SUBSET CustomNames : Cardinality(T) <= MaxStaged} }

\* the configuration store: unavailable, or holding an override for
\* PowerPoint and (under an older version) one for Excel
RoutingRegistries ==
    { Registry(FALSE, {}),
      Registry(TRUE, { RegValue(<< "16.0", "PowerPoint", "Options" >>, "PersonalTemplates",
                                << "D:", "Slides" >>),
                       RegValue(<< "15.0", "Excel", "Options" >>, "PersonalTemplates",
                                << "D:", "Sheets", "" >>) }) }

\* install runs over staging folders of custom templates, on a healthy disk
InitRouting ==
    /\ impl \in {"main", "common"}
    /\ staging \in RoutingStaging
    /\ allowed_authors \in InstallAuthorArgs
    /\ validation_enabled \in BOOLEAN
    /\ winreg \in RoutingRegistries
    /\ InitRun
    /\ faults = MaxFaults

SpecRouting == InitRouting /\ [][Next]_vars

\* a store whose PersonalTemplates values are the folders Office itself
\* proposes: Documents\Custom Office Templates for Word and PowerPoint and
\* its localised name for Excel
FolderRegistries ==
    { Registry(TRUE, { RegValue(<< "16.0", "Word", "Options" >>, "PersonalTemplates",
                                DEFAULT_CUSTOM_OFFICE_TEMPLATE_PATH),
                       RegValue(<< "16.0", "PowerPoint", "Options" >>, "PersonalTemplates",
                                DEFAULT_CUSTOM_OFFICE_TEMPLATE_PATH),
                       RegValue(<< "16.0", "Excel", "Options" >>, "PersonalTemplates",
                                DEFAULT_CUSTOM_OFFICE_ADDITIONAL_TEMPLATE_PATH) }),
      Registry(TRUE, { RegValue(<< "16.0", "Word", "Options" >>, "PersonalTemplates",
                                DEFAULT_CUSTOM_OFFICE_ADDITIONAL_TEMPLATE_PATH),
                       RegValue(<< "16.0", "Excel", "Options" >>, "PersonalTemplates",
                                DEFAULT_CUSTOM_OFFICE_TEMPLATE_PATH) }) }

InitFolders ==
    /\ impl \in {"main", "common"}
    /\ staging \in RoutingStaging
    /\ allowed_authors \in InstallAuthorArgs
    /\ validation_enabled \in BOOLEAN
    /\ winreg \in FolderRegistries
    /\ InitRun
    /\ faults = MaxFaults

SpecFolders == InitFolders /\ [][Next]_vars

\* values the configuration store may hold: PersonalTemplates of Word at two
\* versions, of PowerPoint and of Excel, the Office-wide UserTemplates
\* common.py reads, and the per-application UserTemplates office_paths.py reads
RegistryPool ==
    { RegValue(<< "16.0", "Word", "Options" >>, "PersonalTemplates", << "D:", "Word16" >>),
      RegValue(<< "15.0", "Word", "Options" >>, "PersonalTemplates", << "D:", "Word15", "" >>),
      RegValue(<< "15.0", "PowerPoint", "Options" >>, "PersonalTemplates", << "D:", "Slides15" >>),
      RegValue(<< "12.0", "Excel", "Options" >>, "PersonalTemplates", << "D:", "Sheets12" >>),
      RegValue(<< "14.0", "Common", "General" >>, "UserTemplates", << "D:", "User14" >>),
      RegValue(<< "16.0", "Word", "Common\\General" >>, "UserTemplates", << "D:", "WordUser16" >>),
      RegValue(<< "16.0", "Excel", "Common\\General" >>, "UserTemplates", << "D:", "SheetsUser16" >>) }

\* the path resolution of both modules on one state of the configuration store
InitPaths ==
    /\ impl = "main"
    /\ staging = << >>
    /\ allowed_authors = NoneArg
    /\ validation_enabled = TRUE
    /\ winreg \in {Registry(FALSE, {})} \cup {Registry(TRUE, S) : S \in SUBSET RegistryPool}
    /\ InitRun
    /\ faults = 0

\* office_paths.detect_office_paths and the import of common.py
resolve_paths ==
    /\ pc = "idle"
    /\ LET paths == detect_office_paths(winreg)
           made == {paths.document_theme, paths.default_custom_dir,
                    paths.word, paths.powerpoint, paths.excel}
       IN  /\ detected' = paths
           /\ dirs' = UNION {ensure_directory(dirs, d) : d \in made}
    /\ template_paths' = resolve_template_paths(winreg)
    /\ pc' = "resolved"
    /\ UNCHANGED << probe, config, idx, scan, fs, now, totals, context, open_requests, flags,
                    requests, launched, last, processed, placed, overwritten, finished, runs,
                    uninstalls, faults >>

SpecPaths == InitPaths /\ [][resolve_paths]_vars


----------------------------------------------------------------------------
(* The author check on its own (main_installer.main --check-author, and    *)
(* any caller of common.check_template_author)                             *)

UpperGood == << "W","W","W",".","G","R","A","D","A",".","C","C" >>
PaddedGood == << " " >> \o GoodAuthor \o << " " >>
LongerGood == GoodAuthor \o << "x" >>
UpperBad == << "E","V","I","L" >>
Blank == << " " >>
SecondAuthor == DEFAULT_ALLOWED_TEMPLATE_AUTHORS[2]

\* creator texts of the probed containers
ProbeTexts ==
    { GoodAuthor, SecondAuthor, UpperGood, PaddedGood, LongerGood, BadAuthor, Blank }

ProbeContainers ==
    { Container("notzip", NoText, NoText), Container("nocore", NoText, NoText),
      Container("badxml", NoText, NoText), Container("xml", NoText, NoText) }
    \cup { Container("xml", t, NoText) : t \in ProbeTexts }
    \cup { Container("xml", NoText, t) : t \in {GoodAuthor, BadAuthor} }
    \cup { Container("xml", BadAuthor, GoodAuthor), Container("xml", Blank, GoodAuthor) }

ProbeNames ==
    { FileName("Report", DOTX), FileName("Brand", THMX),
      FileName("Brand", << ".","T","H","M","X" >>) }

\* files of a probed folder, in the order iter_template_files yields them
ProbePool ==
    << File(<< >>, FileName("Letter", DOTM), Good),
       File(<< >>, FileName("Report", DOTX), Bad),
       File(<< >>, FileName("Broken", DOTX), NotZip),
       File(<< >>, FileName("Deck", POTX), Container("xml", SecondAuthor, NoText)),
       File(<< >>, FileName("Empty", POTX), Container("xml", NoText, NoText)),
       File(<< >>, FileName("Brand", THMX), Good) >>

ProbeFolder(S) == SelectSeq(ProbePool, LAMBDA f : f \in S)

Reverse(q) == [i \in 1..Len(q) |-> q[Len(q) + 1 - i]]

\* sorted(constants.SUPPORTED_TEMPLATE_EXTENSIONS), the order in which
\* utils.iter_template_files globs; common.iter_template_files iterates the
\* set itself, whose order is not fixed
SortedExtensions == << DOTM, DOTX, POTM, POTX, THMX, XLTM, XLTX >>

ext_rank(name) ==
    CHOOSE i \in 1..Len(SortedExtensions) : SortedExtensions[i] = suffix_lower(name)

yielded_sorted(children) ==
    \A i, j \in 1..Len(children) :
        i < j => ext_rank(children[i].name) <= ext_rank(children[j].name)

ProbeTargets ==
    { MissingTarget }
    \cup { FileTarget(n, d) : n \in ProbeNames, d \in ProbeContainers }
    \cup { DirTarget(<< >>),
           DirTarget(<< File(<< >>, FileName("Brand", THMX), Good),
                        File(<< >>, FileName("Report", DOTX), Bad) >>) }
    \cup { DirTarget(ProbeFolder(S)) : S \in SUBSET Range(ProbePool) }
    \cup { DirTarget(Reverse(ProbeFolder(S))) : S \in SUBSET Range(ProbePool) }

\* allowed_authors arguments: None, [], [" "], [" EVIL ", ""], one default
\* author, both default authors
ProbeArgs ==
    { NoneArg, AuthorsArg(TRUE, << >>), AuthorsArg(TRUE, << Blank >>),
      AuthorsArg(TRUE, << << " " >> \o UpperBad \o << " " >>, << >> >>),
      AuthorsArg(TRUE, << GoodAuthor >>),
      AuthorsArg(TRUE, DEFAULT_ALLOWED_TEMPLATE_AUTHORS) }

\* one call of check_template_author, after which the process returns
\* (main_installer.main lines 162-172)
check_author ==
    /\ pc = "check"
    /\ \E which \in {"main", "common"}, target \in ProbeTargets, arg \in ProbeArgs,
          validation \in BOOLEAN :
            /\ which = "main" => yielded_sorted(target.children)
            /\ probe' = [ impl |-> which, target |-> target, arg |-> arg,
                       validation |-> validation,
                       result |-> CheckAuthor(which, target, arg, validation),
                       cli |-> CliOutcome(CheckAuthor(which, target, arg, validation)) ]
    /\ pc' = "checked"
    /\ UNCHANGED << config, idx, scan, detected, template_paths, dirs, fs, now, totals, context,
                    open_requests, flags, requests, launched, last, processed, placed,
                    overwritten, finished, runs, uninstalls, faults >>

InitAuthor ==
    /\ probe = NoProbe
    /\ impl = "main"
    /\ staging = << >>
    /\ allowed_authors = NoneArg
    /\ validation_enabled = TRUE
    /\ winreg = Registry(FALSE, {})
    /\ pc = "check"
    /\ idx = 1
    /\ scan = << >>
    /\ detected = NoPaths
    /\ template_paths = NoTemplatePaths
    /\ fs = {}
    /\ dirs = {}
    /\ now = 0
    /\ totals = Totals(0, 0, 0)
    /\ context = InstallationContext
    /\ open_requests = << >>
    /\ flags = InstallFlags
    /\ requests = << >>
    /\ launched = {}
    /\ last = NoStep
    /\ processed = 0
    /\ placed = {}
    /\ overwritten = {}
    /\ finished = << >>
    /\ runs = 0
    /\ uninstalls = 0
    /\ faults = 0

NextAuthor == check_author

SpecAuthor == InitAuthor /\ [][NextAuthor]_vars


----------------------------------------------------------------------------
(* normalize_path on path spellings (utils.py 26-32, common.py 17-20).     *)
(* A spelling is a sequence of characters; pathlib is the Windows flavour,  *)
(* for which both "\" and "/" separate components.                          *)

IsSeparator(c) == c \in {"\\", "/"}

\* str.rstrip("\\/"): drop the trailing separators
RECURSIVE rstrip_separators(_)
rstrip_separators(text) ==
    IF text # << >> /\ IsSeparator(text[Len(text)])
    THEN rstrip_separators(SubSeq(text, 1, Len(text) - 1))
    ELSE text

\* runs of separators collapse into one "\"
RECURSIVE collapse(_)
collapse(text) ==
    IF text = << >> THEN << >>
    ELSE LET rest == collapse(Tail(text))
         IN  IF IsSeparator(Head(text))
             THEN (IF rest # << >> /\ rest[1] = "\\" THEN rest ELSE << "\\" >> \o rest)
             ELSE << Head(text) >> \o rest

\* str(PureWindowsPath(text)): separators collapse, a separator after the
\* last component is not kept, and the empty spelling is the path "."
path_text(text) ==
    LET c == collapse(text)
        t == IF Len(c) > 1 /\ c[Len(c)] = "\\" THEN SubSeq(c, 1, Len(c) - 1) ELSE c
    IN  IF t = << >> THEN << "." >> ELSE t

\* normalize_path(path) for a spelling: the text of the returned Path
normalize_text(text) == path_text(rstrip_separators(strip(text)))

TextAlphabet == { "a", " ", "/", "\\" }

RECURSIVE TextsOfLength(_)
TextsOfLength(n) ==
    IF n = 0 THEN { << >> }
    ELSE { Append(t, c) : t \in TextsOfLength(n - 1), c \in TextAlphabet }

Texts == UNION { TextsOfLength(n) : n \in 0..MaxText }

TextProbe(first, second, normalized) ==
    [ impl |-> "text", first |-> first, second |-> second, normalized |-> normalized ]

InitNormalize ==
    /\ probe \in { TextProbe(a, b, << >>) : a \in Texts, b \in Texts }
    /\ impl = "main"
    /\ staging = << >>
    /\ allowed_authors = NoneArg
    /\ validation_enabled = TRUE
    /\ winreg = Registry(FALSE, {})
    /\ pc = "normalize"
    /\ idx = 1
    /\ scan = << >>
    /\ detected = NoPaths
    /\ template_paths = NoTemplatePaths
    /\ fs = {}
    /\ dirs = {}
    /\ now = 0
    /\ totals = Totals(0, 0, 0)
    /\ context = InstallationContext
    /\ open_requests = << >>
    /\ flags = InstallFlags
    /\ requests = << >>
    /\ launched = {}
    /\ last = NoStep
    /\ processed = 0
    /\ placed = {}
    /\ overwritten = {}
    /\ finished = << >>
    /\ runs = 0
    /\ uninstalls = 0
    /\ faults = 0

\* normalize_path applied to the two spellings
normalize ==
    /\ pc = "normalize"
    /\ probe' = [ probe EXCEPT !.normalized =
                    << normalize_text(probe.first), normalize_text(probe.second) >> ]
    /\ pc' = "normalized"
    /\ UNCHANGED << config, idx, scan, detected, template_paths, dirs, fs, now, totals, context,
                    open_requests, flags, requests, launched, last, processed, placed,
                    overwritten, finished, runs, uninstalls, faults >>

SpecNormalize == InitNormalize /\ [][normalize]_vars

----------------------------------------------------------------------------
(* Properties                                                              *)

\* the list a caller passed, None standing for the default authors
passed_list(arg) == IF arg.given THEN arg.list ELSE DEFAULT_ALLOWED_TEMPLATE_AUTHORS

\* author equals, ignoring case and as a whole string, an entry of list
\* once each entry is trimmed and the empty entries are discarded
listed(author, list) ==
    \E i \in 1..Len(list) :
        strip(list[i]) # << >> /\ lower(strip(list[i])) = lower(author)

\* a probe of an existing non-theme file, validation enabled, from which
\* an author was extracted
AuthorExtracted ==
    /\ probe.impl # "none"
    /\ probe.validation
    /\ probe.target.kind = "file"
    /\ suffix_lower(probe.target.name) # THMX
    /\ probe.result.authors # << >>

\* C1: with validation enabled, an existing non-theme file from which an
\* author is extracted is allowed exactly when that author equals, ignoring
\* case and as a whole string, an entry of the allowed list after trimming
\* and discarding empty entries; "www.grada.cc" is allowed under the
\* default authors.
C1_AllowedIffListed ==
    AuthorExtracted =>
        /\ probe.result.allowed
             = listed(probe.result.authors[1], passed_list(probe.arg))
        /\ (~probe.arg.given /\ probe.result.authors[1] = GoodAuthor)
             => probe.result.allowed

\* C2: an existing .thmx file is allowed whatever it contains, also with
\* validation enabled, so a .thmx found by the custom pass is copied to the
\* theme destination and counted under files, never under blocked (a step
\* hit by an I/O fault aside).
C2_ThemeNeverBlocked ==
    (/\ last.op = "custom"
     /\ suffix_lower(last.name) = THMX
     /\ last.outcome # "skipped"
     /\ last.fault = "none")
    => /\ last.outcome = "installed"
       /\ totals.files = last.before.files + 1
       /\ totals.blocked = last.before.blocked
       /\ exists(fs, last.dest, last.name)


\* an install step (base or custom pass) that handled a file
InstallStep == last.op \in {"base", "custom"} /\ last.outcome # "skipped"

\* C3: with validation disabled, the install step for an existing source
\* file, whatever its author, does not inspect the file and never counts it
\* under blocked; when no I/O fault hits the step it copies the file to its
\* destination and increments files by one.
C3_ValidationBypass ==
    (InstallStep /\ ~validation_enabled /\ staged(staging, last.name) # Absent)
    => /\ ~last.extracted
       /\ last.outcome # "blocked"
       /\ totals.blocked = last.before.blocked
       /\ last.fault = "none"
            => /\ last.outcome = "installed"
               /\ totals.files = last.before.files + 1
               /\ totals.errors = last.before.errors
               /\ exists(fs, last.dest, last.name)
               /\ read(fs, last.dest, last.name) = staged(staging, last.name)

\* a template of a non-allowlisted author, or one that is no ZIP at all, has
\* just been installed with validation disabled
C3_Witness ==
    /\ InstallStep /\ ~validation_enabled
    /\ staged(staging, last.name) \in {Bad, NotZip}
    /\ last.outcome = "installed"
    /\ read(fs, last.dest, last.name) = staged(staging, last.name)

\* C4: every install step increments exactly one of files, errors, blocked
\* by one (missing source -> errors, author not allowed -> blocked, copy
\* succeeded -> files, copy failed with an I/O error -> errors); no counter
\* decreases, and files + errors + blocked is the number of files processed.
C4_ExactlyOneCounter ==
    InstallStep =>
        LET df == totals.files - last.before.files
            de == totals.errors - last.before.errors
            db == totals.blocked - last.before.blocked
        IN  /\ df >= 0 /\ de >= 0 /\ db >= 0
            /\ df + de + db = 1
            /\ staged(staging, last.name) = Absent => de = 1
            /\ last.outcome = "blocked" => db = 1
            /\ last.outcome = "installed" => df = 1
            /\ last.fault \in {"mkdir_dest", "copy"} => de = 1
            /\ totals.files + totals.errors + totals.blocked = processed

\* C5: an I/O error raised while the destination directory is created or the
\* file is copied never aborts the run: the step counts the file under
\* errors, does not install it, and no exception leaves the step.
C5_IOErrorNeverAborts ==
    (InstallStep /\ last.fault \in {"mkdir_dest", "copy"})
    => /\ pc # "crashed"
       /\ last.outcome # "raised"
       /\ totals.errors = last.before.errors + 1
       /\ totals.files = last.before.files
       /\ previous(fs, last.dest, last.name) = last.prev

\* C6: whenever an install step (base or custom) overwrites an existing
\* destination file, a copy of the previous content was written first to
\* Backup/<stamp>_<filename> next to it, a failure of the backup I/O aside.
C6_BackupBeforeOverwrite ==
    (InstallStep /\ last.overwrote /\ last.fault \notin {"backup_mkdir", "backup_copy"})
    => /\ exists(fs, Append(last.dest, "Backup"), BackupName(strftime(now), last.name))
       /\ read(fs, Append(last.dest, "Backup"), BackupName(strftime(now), last.name))
            = last.prev

\* C7: a failure of any part of the backup step is only logged: no exception
\* leaves the backup step, the copy is still attempted and, succeeding, is
\* counted under files.
C7_BackupFailureOnlyLogged ==
    (InstallStep /\ last.fault \in {"backup_mkdir", "backup_copy"})
    => /\ pc # "crashed"
       /\ last.outcome = "installed"
       /\ totals.files = last.before.files + 1
       /\ read(fs, last.dest, last.name) = staged(staging, last.name)

\* the uninstaller has just run to its end
Uninstalled == last.op = "uninstall" /\ pc = "idle"

\* C8: after an install followed by an uninstall, no base-template file the
\* install placed exists at its destination any more.
C8_BaseTemplatesRemoved ==
    Uninstalled =>
        \A p \in placed : p.name \in BASE_TEMPLATE_NAMES => ~exists(fs, p.dir, p.name)

\* C9: after an install followed by an uninstall, under the same staging
\* folder and configuration, no custom file the install copied remains: the
\* uninstaller searches every directory the installer writes custom
\* templates to.
C9_CustomCopiesRemoved ==
    Uninstalled =>
        \A p \in placed : p.name \notin BASE_TEMPLATE_NAMES => ~exists(fs, p.dir, p.name)

\* the second of two install runs has just run to its end
SecondRunDone == pc = "idle" /\ Len(finished) = 2 /\ last.op \in {"base", "custom"}

\* C10: running the install twice leaves the destinations identical to the
\* sources, gives the same files count in both runs, and after the second
\* run there is a Backup file for every file that run overwrote, base and
\* custom alike.
C10_SecondRunIdempotent ==
    SecondRunDone =>
        /\ \A p \in placed :
               staged(staging, p.name) # Absent /\ exists(fs, p.dir, p.name)
               => read(fs, p.dir, p.name) = staged(staging, p.name)
        /\ finished[1].files = finished[2].files
        /\ \A o \in overwritten :
               \E b \in fs : /\ b.dir = Append(o.dir, "Backup")
                             /\ b.name.ts # NoStamp
                             /\ [b.name EXCEPT !.ts = NoStamp] = o.name
                             /\ b.data = o.data

\* a step of one of the removal tools
UninstallStep ==
    /\ last' # last
    /\ last'.op \in {"remove", "uninstall", "delete_normal"}

DefaultProbeOfCreator ==
    /\ probe.impl # "none"
    /\ probe.validation
    /\ ~probe.arg.given
    /\ probe.target.kind = "file"
    /\ suffix_lower(probe.target.name) # THMX
    /\ probe.target.data.kind = "xml"
    /\ probe.target.data.dc # NoText

\* C12: a valid ZIP whose Dublin-Core creator is any value other than
\* "www.grada.cc" is, under the default allowed authors, not allowed and
\* not an error.
C12_OtherCreatorBlocked ==
    (DefaultProbeOfCreator /\ probe.target.data.dc # GoodAuthor)
    => /\ ~probe.result.allowed
       /\ ~probe.result.error

\* a probe, validation enabled, of an existing non-theme file that is no
\* ZIP, has no docProps/core.xml, or whose core.xml is malformed
UnreadableProbe ==
    /\ probe.impl # "none"
    /\ probe.validation
    /\ probe.target.kind = "file"
    /\ suffix_lower(probe.target.name) # THMX
    /\ probe.target.data.kind \in {"notzip", "nocore", "badxml"}

\* C13: author extraction never raises: for an existing file that is no ZIP,
\* is corrupt, lacks core.xml or holds malformed XML it returns a diagnostic
\* and no author, and check_author on such a file (a non-ZIP file at a
\* template path in particular) returns allowed=false, error=true.
C13_ExtractionNeverRaises ==
    UnreadableProbe
    => /\ extract_author(probe.target.data).author = NoText
       /\ extract_author(probe.target.data).error \in {"ERROR", "WARN_core"}
       /\ common_extract_author(probe.target.data).author = NoText
       /\ common_extract_author(probe.target.data).error \in {"ERROR", "WARN_core"}
       /\ probe.result.extracted
       /\ ~probe.result.allowed
       /\ probe.result.error
       /\ probe.result.authors = << >>
       /\ probe.result.message \in {"ERROR", "WARN_core"}

\* a non-ZIP file with a template extension has been checked
C13_Witness ==
    /\ UnreadableProbe
    /\ probe.target.data.kind = "notzip"
    /\ probe.result.error

\* C14: for a path that does not exist check_author returns allowed=false,
\* error=true and no authors, whatever allowed_authors is and whether
\* validation is enabled or disabled.
C14_MissingPathIsError ==
    (probe.impl # "none" /\ probe.target.kind = "missing")
    => /\ ~probe.result.allowed
       /\ probe.result.error
       /\ probe.result.authors = << >>
       /\ ~probe.result.extracted

\* a missing path has been checked with validation disabled and an
\* allowed_authors argument of its own
C14_Witness ==
    /\ probe.impl # "none"
    /\ probe.target.kind = "missing"
    /\ ~probe.validation
    /\ probe.arg.given
    /\ probe.result.error

\* a file from which the extraction of the author succeeds
HasAuthor(f) ==
    /\ f.data.kind = "xml"
    /\ strip(IF f.data.dc # NoText THEN f.data.dc ELSE f.data.plain) # NoText

AuthorOf(f) == strip(IF f.data.dc # NoText THEN f.data.dc ELSE f.data.plain)

\* C15: check_author on an existing directory returns allowed=true and
\* error=false whatever the files contain, whatever allowed_authors is and
\* whether validation is enabled; a file whose extraction fails or that has
\* no author adds no entry to authors and does not stop the scan.
C15_DirectoryAlwaysAllowed ==
    (probe.impl # "none" /\ probe.target.kind = "dir")
    => LET files == probe.target.children
           authors == probe.result.authors
       IN  /\ probe.result.allowed
           /\ ~probe.result.error
           /\ \A i \in 1..Len(authors) :
                 \E k \in 1..Len(files) : HasAuthor(files[k]) /\ AuthorOf(files[k]) = authors[i]
           /\ Len(authors) <= Cardinality({k \in 1..Len(files) : HasAuthor(files[k])})
           /\ \A k \in 1..Len(files) :
                 (HasAuthor(files[k]) /\ suffix_lower(files[k].name) # THMX)
                 => \E i \in 1..Len(authors) : authors[i] = AuthorOf(files[k])

\* a folder has been scanned, validation disabled, in which a file that is
\* no ZIP comes before a file whose author was listed
C15_Witness ==
    /\ probe.impl # "none"
    /\ probe.target.kind = "dir"
    /\ ~probe.validation
    /\ probe.arg.given
    /\ \E k \in 1..Len(probe.target.children) :
          /\ ~HasAuthor(probe.target.children[k])
          /\ \E j \in (k + 1)..Len(probe.target.children) :
                /\ HasAuthor(probe.target.children[j])
                /\ AuthorOf(probe.target.children[j]) = SecondAuthor
    /\ \E i \in 1..Len(probe.result.authors) : probe.result.authors[i] = SecondAuthor

\* a folder of three valid templates, two of an allowed author and one of
\* a blocked author, and one file that is no ZIP
MixedFolder == ProbeFolder({ProbePool[1], ProbePool[2], ProbePool[3], ProbePool[4]})

MixedFolderProbe ==
    /\ probe.impl # "none"
    /\ probe.target.kind = "dir"
    /\ Range(probe.target.children) = Range(MixedFolder)

\* C16: check_author on a folder of 3 valid templates (2 of an allowed
\* author, 1 of a blocked author) and 1 corrupt file returns allowed=true
\* with authors holding exactly 2 author strings, in scan order.
C16_FolderListsTwoAuthors ==
    MixedFolderProbe
    => /\ probe.result.allowed
       /\ ~probe.result.error
       /\ Len(probe.result.authors) = 2
       /\ Range(probe.result.authors) = {GoodAuthor, SecondAuthor}

\* C16 as the code has it: authors holds the 3 extracted author strings,
\* the blocked author's included, in scan order; the corrupt file adds none.
C16_FolderListsEveryAuthor ==
    MixedFolderProbe
    => /\ probe.result.allowed
       /\ ~probe.result.error
       /\ Len(probe.result.authors) = 3
       /\ LET kept == SelectSeq(probe.target.children, HasAuthor)
          IN  probe.result.authors = [i \in 1..Len(kept) |-> AuthorOf(kept[i])]

\* that folder has been scanned with validation enabled and the default
\* allowed authors
C16_Witness ==
    /\ MixedFolderProbe
    /\ probe.validation
    /\ ~probe.arg.given
    /\ probe.result.authors = << GoodAuthor, BadAuthor, SecondAuthor >>

\* the destination of the extension category of a file name: the Word,
\* PowerPoint or Excel custom-template folder, or the theme folder, as the
\* running implementation resolved them
CategoryDestination(name) ==
    LET ext == suffix_lower(name)
        office == detect_office_paths(winreg)
        paths == resolve_template_paths(winreg)
    IN  IF ext \in {DOTX, DOTM}
        THEN (IF impl = "main" THEN office.word ELSE paths.CUSTOM_WORD)
        ELSE IF ext \in {POTX, POTM}
        THEN (IF impl = "main" THEN office.powerpoint ELSE paths.CUSTOM_PPT)
        ELSE IF ext \in {XLTX, XLTM}
        THEN (IF impl = "main" THEN office.excel ELSE paths.CUSTOM_EXCEL)
        ELSE IF ext = THMX
        THEN (IF impl = "main" THEN office.document_theme ELSE paths.THEME)
        ELSE NoValue

\* one iteration of the custom pass
CustomStep == pc = "custom" /\ scan # << >> /\ scan' = Tail(scan)

\* C17: in the custom pass every allowed file is copied to the destination
\* of its extension category and to no other: .dotx/.dotm to the Word
\* custom-template folder, .potx/.potm to the PowerPoint one, .xltx/.xltm
\* to the Excel one, .thmx to the theme folder.
C17_RoutedByExtension ==
    [][ CustomStep =>
          LET name == Head(scan)
              source == staged(staging, name)
              result == CheckAuthor(impl, FileTarget(name, source), allowed_authors,
                                    validation_enabled)
          IN  /\ \A f \in fs' \ fs :
                    f = File(CategoryDestination(name), name, source)
              /\ (name \notin BASE_TEMPLATE_NAMES /\ result.allowed /\ last'.fault = "none")
                 => File(CategoryDestination(name), name, source) \in fs' ]_vars

\* a macro-enabled workbook template has been copied to the Excel folder
\* the configuration store names
C17_Witness ==
    /\ last.op = "custom" /\ last.outcome = "installed"
    /\ suffix_lower(last.name) = XLTM
    /\ last.dest = << "D:", "Sheets" >>
    /\ exists(fs, << "D:", "Sheets" >>, last.name)

\* C18: in every run of the main installer every base step has finished
\* before the custom scan handles its first file, and every install step
\* has finished before the first folder-open request is acted on and before
\* the first application is launched.
C18_PassesInOrder ==
    impl = "main" =>
        /\ (pc = "custom" \/ last.op = "custom") => idx > Len(base_targets)
        /\ (requests # << >> \/ launched # {})
             => /\ idx > Len(base_targets)
                /\ scan = << >>
                /\ pc \in {"launch", "idle"}
        /\ launched # {} => pc = "idle"

\* a run of the main installer has ended in which base and custom files
\* were handled, a folder was opened and an application was launched
C18_Witness ==
    /\ impl = "main" /\ pc = "idle"
    /\ last.op = "custom" /\ processed > Len(base_targets)
    /\ requests # << >> /\ launched # {}

\* the defaults the specification documents: Documents/Custom Office
\* Templates, Documents/Plantillas personalizadas de Office, and the theme,
\* roaming and Excel startup folders under the roaming application data
DocumentedDefaults ==
    [ custom |-> << "Documents", "Custom Office Templates" >>,
      additional |-> << "Documents", "Plantillas personalizadas de Office" >>,
      theme |-> << "AppData", "Microsoft", "Templates", "Document Themes" >>,
      roaming |-> << "AppData", "Microsoft", "Templates" >>,
      excel_startup |-> << "AppData", "Microsoft", "Excel", "XLSTART" >> ]

\* the paths common.py resolved are all paths, and the documented defaults
\* when the configuration store is unavailable
CommonPathsResolved ==
    /\ \A k \in DOMAIN template_paths : template_paths[k] # NoValue
    /\ ~winreg.available
         => /\ template_paths.CUSTOM_WORD = DocumentedDefaults.custom
            /\ template_paths.CUSTOM_PPT = DocumentedDefaults.custom
            /\ template_paths.CUSTOM_EXCEL = DocumentedDefaults.custom
            /\ template_paths.CUSTOM_ADDITIONAL = DocumentedDefaults.additional
            /\ template_paths.THEME = DocumentedDefaults.theme
            /\ template_paths.ROAMING = DocumentedDefaults.roaming
            /\ template_paths.EXCEL = DocumentedDefaults.excel_startup

\* the same for the paths office_paths.detect_office_paths returned
DetectedPathsResolved ==
    /\ \A k \in DOMAIN detected : detected[k] # NoValue
    /\ ~winreg.available
         => /\ detected.word = DocumentedDefaults.custom
            /\ detected.powerpoint = DocumentedDefaults.custom
            /\ detected.excel = DocumentedDefaults.custom
            /\ detected.document_theme = DocumentedDefaults.theme

\* C19: destination resolution is total: whatever the state of the
\* configuration store every destination resolves to a path, and when the
\* store is unavailable every override lookup yields the documented default.
C19_ResolutionTotal ==
    /\ (impl = "common" /\ template_paths # NoTemplatePaths) => CommonPathsResolved
    /\ (impl = "main" /\ detected # NoPaths) => DetectedPathsResolved

\* an install step that ended because the source is missing or because the
\* author check did not allow the file
RejectedStep ==
    /\ pc \in {"base", "custom"}
    /\ processed' = processed + 1
    /\ last'.outcome \in {"missing", "blocked"}

\* C20: an install step that ends because the source is missing or the
\* author check does not allow the file has changed nothing on the
\* filesystem: no destination directory, no Backup directory or file, no
\* destination file.
C20_RejectedStepChangesNothing ==
    [][ RejectedStep => (fs' = fs /\ dirs' = dirs) ]_vars

\* the value of name under key leaf of application app at the highest
\* product version that has one, NoValue when no version has
HighestVersionValue(app, leaf, name) ==
    LET has == {i \in 1..Len(OFFICE_VERSIONS) :
                  QueryValueEx(winreg, << OFFICE_VERSIONS[i], app, leaf >>, name) # NoValue}
        top == CHOOSE i \in has : \A j \in has : i <= j
    IN  IF has = {} THEN NoValue
        ELSE normalize_path(QueryValueEx(winreg, << OFFICE_VERSIONS[top], app, leaf >>, name))

\* PersonalTemplates at the highest version that has one, else UserTemplates
\* (under the key user_app\user_leaf) at the highest version that has one,
\* else Documents/Custom Office Templates
ExpectedCustomDirectory(app, user_app, user_leaf) ==
    LET personal == HighestVersionValue(app, "Options", "PersonalTemplates")
        user == HighestVersionValue(user_app, user_leaf, "UserTemplates")
    IN  IF personal # NoValue THEN personal
        ELSE IF user # NoValue THEN user
        ELSE DocumentedDefaults.custom

\* C21: for each of Word, PowerPoint and Excel the resolved custom-template
\* directory is the PersonalTemplates value of the highest version that has
\* one, otherwise the UserTemplates value of the highest version that has
\* one, otherwise Documents/Custom Office Templates; never another
\* application's override.
C21_CustomDirectoryByPrecedence ==
    (pc = "resolved" /\ winreg.available)
    => /\ template_paths.CUSTOM_WORD = ExpectedCustomDirectory("Word", "Common", "General")
       /\ template_paths.CUSTOM_PPT = ExpectedCustomDirectory("PowerPoint", "Common", "General")
       /\ template_paths.CUSTOM_EXCEL = ExpectedCustomDirectory("Excel", "Common", "General")
       /\ detected.word = ExpectedCustomDirectory("Word", "Word", "Common\\General")
       /\ detected.powerpoint
            = ExpectedCustomDirectory("PowerPoint", "PowerPoint", "Common\\General")
       /\ detected.excel = ExpectedCustomDirectory("Excel", "Excel", "Common\\General")

\* a probe, validation enabled, of an existing non-theme file
ValidatedFileProbe ==
    /\ probe.impl # "none"
    /\ probe.validation
    /\ probe.target.kind = "file"
    /\ suffix_lower(probe.target.name) # THMX

\* the container is readable and its core.xml has no creator element or a
\* creator that is empty once trimmed
NoCreator(data) ==
    /\ data.kind = "xml"
    /\ strip(IF data.dc # NoText THEN data.dc ELSE data.plain) = NoText

\* C22: with validation enabled, check_author on an existing non-theme file
\* sets error=true only for a hard failure (no ZIP, corrupt container,
\* malformed XML), and returns allowed=false, error=false when the container
\* is readable but core.xml has no creator or an empty one.
C22_ErrorOnlyOnHardFailure ==
    ValidatedFileProbe
    => /\ probe.result.error => probe.target.data.kind \in {"notzip", "badxml"}
       /\ NoCreator(probe.target.data)
            => (~probe.result.allowed /\ ~probe.result.error)

\* a spelling with its surrounding whitespace and trailing separators removed,
\* whatever their order
RECURSIVE Core(_)
Core(text) ==
    IF text # << >> /\ (IsSpace(text[Len(text)]) \/ IsSeparator(text[Len(text)]))
    THEN Core(SubSeq(text, 1, Len(text) - 1))
    ELSE IF text # << >> /\ IsSpace(text[1]) THEN Core(Tail(text))
    ELSE text

\* the text has no surrounding whitespace and does not end with a separator
Trimmed(text) ==
    /\ text # << >>
    /\ ~IsSpace(text[1])
    /\ ~IsSpace(text[Len(text)])
    /\ ~IsSeparator(text[Len(text)])

\* C23: for every input string, the text of the path returned by
\* normalize_path has no leading or trailing whitespace and does not end
\* with a separator, so two spellings that differ only in surrounding
\* whitespace and trailing separators normalize to equal paths.
C23_NormalizedTextTrimmed ==
    pc = "normalized"
    => /\ Trimmed(probe.normalized[1])
       /\ Core(probe.first) = Core(probe.second)
            => probe.normalized[1] = probe.normalized[2]

\* the passes of the first install run are over and the folder-open requests
\* have been handed to the folder opener
FirstRunRequested == runs = 1 /\ pc = "launch"

RequestedFolders == { requests[i].path : i \in 1..Len(requests) }

\* directories into which an install step copied a file
CopiedInto == { p.dir : p \in placed }

\* C24: at the end of the install passes, the folders with a folder-open
\* request are exactly the destination directories into which at least one
\* file was copied in this run.
C24_RequestsMatchCopies ==
    FirstRunRequested => RequestedFolders = CopiedInto

\* the custom pass has just visited a staging file that carries a
\* base-template name
BaseNamedVisit ==
    /\ last.op = "custom"
    /\ last.name \in BASE_TEMPLATE_NAMES
    /\ staged(staging, last.name) # Absent

\* staging files that do not carry a base-template name
CustomStaged == { n \in Range(iter_template_files(staging)) : n \notin BASE_TEMPLATE_NAMES }

\* C25: the custom pass never validates, copies or counts a staging file
\* that carries one of the ten base-template names, so no staging file is
\* processed twice: the steps of a run are at most one per base-template
\* name plus one per other staging file.
C25_BaseNamesSkippedByCustomPass ==
    /\ BaseNamedVisit
         => /\ last.outcome = "skipped"
            /\ ~last.extracted
            /\ totals = last.before
            /\ previous(fs, last.dest, last.name) = last.prev
    /\ processed <= Len(base_targets) + Cardinality(CustomStaged)
    /\ pc # "crashed"
         => totals.files + totals.errors + totals.blocked
              <= Len(base_targets) + Cardinality(CustomStaged)

C25_Witness ==
    /\ BaseNamedVisit
    /\ pc = "idle"
    /\ totals.files >= 1
    /\ \E p \in placed : p.name = last.name

\* the caller passed a list and none of its entries is non-empty once trimmed
NoUsableEntry(arg) ==
    arg.given /\ \A i \in 1..Len(arg.list) : strip(arg.list[i]) = << >>

\* C26: with validation enabled, a non-theme file is allowed only if its
\* author matches an entry of the list the caller passed (the defaults only
\* when the caller passed None); a caller-supplied list with no non-empty
\* entry allows no document template.
C26_OnlyCallersListAllows ==
    ValidatedFileProbe
    => /\ probe.result.allowed
            => /\ probe.result.authors # << >>
               /\ listed(probe.result.authors[1], passed_list(probe.arg))
       /\ NoUsableEntry(probe.arg) => ~probe.result.allowed

\* handle_folder_open_requests has handed its list to the folder opener
RequestsBuilt == impl = "main" /\ runs >= 1 /\ pc \in {"launch", "idle"}

\* C27: every folder-open request built by handle_folder_open_requests that
\* names a selected file has that file directly inside the request's
\* target folder.
C27_SelectionInsideFolder ==
    RequestsBuilt
    => \A i \in 1..Len(requests) :
           requests[i].select # NoFile => requests[i].select.dir = requests[i].path

\* a file of a Backup directory
IsBackup(f) == f.dir # << >> /\ f.dir[Len(f.dir)] = "Backup"

\* the files of fs that are backups
Backups(files) == { f \in files : IsBackup(f) }

\* C28: no install step deletes or overwrites an existing backup file, so
\* after any sequence of install runs, several within one clock minute
\* included, every previous content of an overwritten destination file is
\* still present in the Backup directory.
C28_BackupsKept ==
    [][ last'.op \in {"base", "custom"} /\ last' # last
        => /\ Backups(fs) \subseteq Backups(fs')
           /\ last'.overwrote
                => \E b \in Backups(fs') :
                       /\ b.dir = Append(last'.dest, "Backup")
                       /\ [b.name EXCEPT !.ts = NoStamp] = last'.name
                       /\ b.data = last'.prev ]_vars

\* a step of uninstaller.py: remove_installed_templates or delete_custom_copies
UninstallerStep ==
    /\ last' # last
    /\ last'.op \in {"remove", "uninstall"}

\* the destination directories the uninstaller works on
DestinationRoots(paths) == { normalize_path(d) : d \in dict_values(default_destinations(paths)) }

\* C29: uninstall deletes only files directly inside a destination directory
\* whose name is a base-template name or the name of a non-base template
\* present in staging; every other file, every file under a Backup
\* subdirectory and every staging file is unchanged.
C29_UninstallDeletesOnlyTemplates ==
    [][ UninstallerStep =>
            /\ fs' \subseteq fs
            /\ staging' = staging
            /\ \A f \in fs \ fs' :
                   /\ f.dir \in DestinationRoots(template_paths')
                   /\ ~IsBackup(f)
                   /\ f.name \in BASE_TEMPLATE_NAMES \cup CustomStaged ]_vars

\* the uninstaller has run after an install: it deleted a file the install
\* had placed, and a backup, the user's own template and the archived files
\* are still there
C29_Witness ==
    /\ pc = "idle" /\ last.op = "uninstall"
    /\ \E p \in placed : ~exists(fs, p.dir, p.name)
    /\ \E p \in placed : p.name \notin BASE_TEMPLATE_NAMES /\ ~exists(fs, p.dir, p.name)
    /\ Backups(fs) # {}
    /\ exists(fs, DEFAULT_ROAMING_TEMPLATE_FOLDER, FileName("Mine", DOTX))
    /\ exists(fs, Join(DOCUMENTS_PATH, "Archive"), FileName("Report", DOTX))

\* C30: no AuthorCheckResult has allowed=true together with error=true,
\* whatever the path, the allowed list and the validation switch; hence the
\* standalone author check prints TRUE exactly when its exit code is 0 and
\* FALSE exactly when its exit code is 1.
C30_NeverAllowedWithError ==
    probe.impl \notin {"none", "text"}
    => /\ ~(probe.result.allowed /\ probe.result.error)
       /\ probe.cli.printed = "TRUE" <=> probe.cli.code = 0
       /\ probe.cli.printed = "FALSE" <=> probe.cli.code = 1

\* the standalone check has reported a file it could not read
C30_Witness ==
    /\ probe.impl = "main"
    /\ probe.validation
    /\ probe.target.kind = "file"
    /\ probe.result.error
    /\ probe.cli = [ printed |-> "FALSE", code |-> 1 ]

============================================================================
